---- MODULE Spec2Model ----
(***************************************************************************)
(* korchasa/tokenizers-benchmark: the benchmark orchestrator in its two    *)
(* variants.                                                               *)
(*   variant = "csv"   : src/run.ts lines 487-1485, bench.ts writing one   *)
(*                       <model>.json and one <model>.csv per model, with  *)
(*                       skip-if-exists and --override;                    *)
(*   variant = "index" : src/unnamed/part_001, bench.ts writing one run    *)
(*                       file per invocation and appending to reports.json.*)
(* Strings are sequences of one-character strings, so that the code's      *)
(* string operations (replace, split, sort, endsWith) are computed.        *)
(* The estimated cost (a float accumulated beside the token count) is not  *)
(* part of the model.                                                      *)
(* Specifications: Spec (invocations one after the other, either variant), *)
(* FairSpec (Spec with fairness), FnSpec (functions on their own),         *)
(* CollisionSpec (the csv variant over two ids of one artifact name),      *)
(* RaceSpec (two invocations of the index variant at once).                *)
(***************************************************************************)
EXTENDS Integers, Sequences, FiniteSets, TLC

(***************************************************************************)
(* Bounds of the model.                                                    *)
(***************************************************************************)
\* invocations of main against the same directories
MaxRuns == 2
\* largest usage.prompt_tokens the service reports
MaxTokens == 1
\* revisions of a model's catalog metadata (pricing and the like change)
MaxRev == 2
\* longest --language value given to getFilesToProcess on its own
MaxFilterLen == 2
\* longest text of models.txt given to readModelsFromFile on its own
MaxTextLen == 4
\* milliseconds in a second (Date.prototype.toISOString prints ss.sss)
MsPerSec == 1000

(***************************************************************************)
(* State.                                                                  *)
(***************************************************************************)
VARIABLES
  variant,          \* "csv": src/run.ts (second script); "index": src/unnamed/part_001
  other,            \* when two invocations run at once against one output directory: what
                    \* main holds in the invocation that is not taking the step; absent
                    \* when invocations come one after the other
  \* the file system and the clock
  resultsDir,       \* csv variant: artifact name -> [json, csv], each absent or Some(content)
  runFiles,         \* index variant: the run files of the output directory, each
                    \* [filename, summary]: the summary of the report it holds
  reportsJson,      \* index variant: the text of reports.json
  clock,            \* milliseconds since the epoch
  \* main
  runs,             \* invocations of main so far
  doneRuns,         \* invocations of main that ran to their end
  mainCalls,        \* what this invocation of main itself did to the file system before
                    \* its loop, in order: "mkdir" or "stat", "readModels"
  mainPc,           \* "idle", "loop", "summary", "save", "readindex", "writeindex", "done", "exit"
  exitMsg,          \* what was printed before Deno.exit(1)
  args,             \* [modelIds, override, languageFilter]
  mi,               \* position of the for-of loop over modelIds
  allStats,         \* csv variant: ModelProcessingStats[]
  modelReports,     \* index variant: ModelReport[]
  summary,          \* the totals main computes
  save,             \* index variant: [timestamp, filename, reports] of the try block that saves
  \* processModel
  pc,               \* "none", "entry", "getinfo", "files", "read", "probe", "delay", "afterloop", "writecsv", "return"
  modelInfo, files, fi, content,
  csvLines, results, totalFiles, successfulFiles, totalTokens, errors,
  ret,              \* the value processModel returns
  \* what the environment saw of the current processModel invocation
  httpCalls,        \* requests sent to the service
  fileReads,        \* corpus files opened
  delays,           \* 500 ms timers awaited
  writeCalls,       \* artifacts Deno.writeTextFile was called for, in call order
  prior,            \* the model's two artifacts as they were when processModel was entered
  answer            \* what the environment gave to the call the last step made, kept until
                    \* the next step: the catalog's response to getModelInfo, the outcome of
                    \* reading a corpus file; when a function is called on its own, what it
                    \* is given; absent otherwise

(***************************************************************************)
(* Strings.                                                                *)
(***************************************************************************)
\* an optional value is a sequence of at most one element
null == <<>>
Some(x) == <<x>>
\* a file that does not exist
Absent == <<>>

\* UTF-16 code units of the characters the model uses (Array.prototype.sort
\* and === compare strings by code unit)
Code == [c \in {" ", "#", "-", ".", "/", "_", "a", "b", "c", "d", "e", "h", "l", "m",
                 "o", "r", "s", "t", "u", "x"} |->
          CASE c = " " -> 32 [] c = "#" -> 35 [] c = "-" -> 45 [] c = "." -> 46
            [] c = "/" -> 47 [] c = "_" -> 95 [] c = "a" -> 97 [] c = "b" -> 98
            [] c = "c" -> 99 [] c = "d" -> 100 [] c = "e" -> 101 [] c = "h" -> 104
            [] c = "l" -> 108 [] c = "m" -> 109 [] c = "o" -> 111 [] c = "r" -> 114
            [] c = "s" -> 115 [] c = "t" -> 116 [] c = "u" -> 117 [] c = "x" -> 120]

RECURSIVE LexLess(_, _)
LexLess(a, b) ==
  IF b = <<>> THEN FALSE
  ELSE IF a = <<>> THEN TRUE
  ELSE IF Code[Head(a)] # Code[Head(b)] THEN Code[Head(a)] < Code[Head(b)]
  ELSE LexLess(Tail(a), Tail(b))

EndsWith(s, suffix) ==
  /\ Len(s) >= Len(suffix)
  /\ SubSeq(s, Len(s) - Len(suffix) + 1, Len(s)) = suffix

StartsWith(s, prefix) ==
  /\ Len(s) >= Len(prefix)
  /\ SubSeq(s, 1, Len(prefix)) = prefix

DotTxt == <<".", "t", "x", "t">>

\* files.sort(): ascending by code unit
RECURSIVE SortStrings(_)
SortStrings(S) ==
  IF S = {} THEN <<>>
  ELSE LET least == CHOOSE x \in S : \A y \in S \ {x} : LexLess(x, y)
       IN  <<least>> \o SortStrings(S \ {least})

\* filePath.split('/').pop() || filePath
RECURSIVE LastSegment(_)
LastSegment(path) ==
  IF \E i \in DOMAIN path : path[i] = "/"
  THEN LastSegment(Tail(path))
  ELSE path

SplitPop(filePath) ==
  IF LastSegment(filePath) = <<>> THEN filePath ELSE LastSegment(filePath)

(***************************************************************************)
(* The environment: the corpus directory, the model list, the service.     *)
(***************************************************************************)
UdhrPath == <<".", "/", "u", "d", "h", "r">>

\* entries of ./udhr as Deno.readDirSync yields them
UdhrDir ==
  { [name |-> <<"a", ".", "t", "x", "t">>, isFile |-> TRUE],
    [name |-> <<"a", "b", ".", "t", "x", "t">>, isFile |-> TRUE],
    [name |-> <<"m", "o", "d", "e", "l", "s", ".", "t", "x", "t">>, isFile |-> TRUE],
    [name |-> <<"c", ".", "m", "d">>, isFile |-> TRUE],
    [name |-> <<"d", ".", "t", "x", "t">>, isFile |-> FALSE] }

ModelsTxt == <<"m", "o", "d", "e", "l", "s", ".", "t", "x", "t">>

\* what the text of a corpus file is when it can be read and is not empty
FileText(name) ==
  IF name = <<"a", ".", "t", "x", "t">> THEN <<"a", " ", "b", ".", " ", "c">>
  ELSE <<"a", "-", "b">>

\* Deno.readTextFileSync on a corpus file: throws, or yields the text, which
\* may be the empty string
ReadThrows == <<"THROWS">>
ReadOutcomes(name) == {ReadThrows, <<>>, FileText(name)}

\* model identifiers; M1 and M2 differ only in a character that is not
\* filename-safe
M1 == <<"a", "/", "b">>
M2 == <<"a", "-", "b">>
M3 == <<"c">>
ModelIds == {M1, M2, M3}
\* what a run is started with: the model list (--model, or the lines of
\* models.txt) and --language, absent (or empty, which the code treats
\* alike) or a language code.  Runs over the whole corpus have one model,
\* runs over two models have one language.
Scenarios ==
  { [modelIds |-> <<M1>>, languageFilter |-> <<>>],
    [modelIds |-> <<M1>>, languageFilter |-> <<"a">>],
    [modelIds |-> <<M3, M1>>, languageFilter |-> <<"a">>] }

\* a model list with two ids of one artifact name
CollidingScenarios == { [modelIds |-> <<M1, M2>>, languageFilter |-> <<"a">>] }

(***************************************************************************)
(* Pure functions of the program.                                          *)
(***************************************************************************)
\* the delimiter class of countWords: [\s\n\r\t.,;:!?()[\]{}"'-]
IsDelimiter(c) == c \in {" ", ".", "-"}

RECURSIVE CountRuns(_, _)
\* words of text: maximal runs of non-delimiters; inWord says whether the
\* character before text belongs to a word
CountRuns(text, inWord) ==
  IF text = <<>> THEN 0
  ELSE IF IsDelimiter(Head(text)) THEN CountRuns(Tail(text), FALSE)
  ELSE (IF inWord THEN 0 ELSE 1) + CountRuns(Tail(text), TRUE)

countWords(text) == CountRuns(text, FALSE)

\* [a-zA-Z0-9._-]
IsFilenameSafe(c) ==
  \/ (Code[c] >= Code["a"] /\ Code[c] <= 122)
  \/ c \in {".", "_", "-"}

\* slip: the replacement character is '_'
modelIdToFilename_Underscore(modelId) ==
  [i \in DOMAIN modelId |-> IF IsFilenameSafe(modelId[i]) THEN modelId[i] ELSE "_"]

modelIdToFilename(modelId) ==
  [i \in DOMAIN modelId |-> IF IsFilenameSafe(modelId[i]) THEN modelId[i] ELSE "-"]

\* entry.name.replace(/\.txt$/, '')
StripTxt(name) ==
  IF EndsWith(name, DotTxt) THEN SubSeq(name, 1, Len(name) - Len(DotTxt)) ELSE name

Reverse(seq) == [i \in 1..Len(seq) |-> seq[Len(seq) + 1 - i]]

\* slip: the comparison of the sort is the wrong way round
getFilesToProcess_Descending(languageFilter) ==
  Reverse(SortStrings({ UdhrPath \o <<"/">> \o e.name :
                          e \in { d \in UdhrDir :
                                    /\ d.isFile
                                    /\ EndsWith(d.name, DotTxt)
                                    /\ d.name # ModelsTxt
                                    /\ (languageFilter # <<>>
                                          => StripTxt(d.name) = languageFilter) } }))

\* slip: fileLang.startsWith(languageFilter) in place of the comparison
getFilesToProcess_Prefix(languageFilter) ==
  SortStrings({ UdhrPath \o <<"/">> \o e.name :
                  e \in { d \in UdhrDir :
                            /\ d.isFile
                            /\ EndsWith(d.name, DotTxt)
                            /\ d.name # ModelsTxt
                            /\ (languageFilter # <<>>
                                  => StartsWith(StripTxt(d.name), languageFilter)) } })

getFilesToProcess(languageFilter) ==
  SortStrings({ UdhrPath \o <<"/">> \o e.name :
                  e \in { d \in UdhrDir :
                            /\ d.isFile
                            /\ EndsWith(d.name, DotTxt)
                            /\ d.name # ModelsTxt
                            /\ (languageFilter # <<>>
                                  => StripTxt(d.name) = languageFilter) } })

\* the characters String.prototype.trim removes, of those the model uses
IsWhitespace(c) == c \in {" ", "\n"}

\* content.split('\n')
RECURSIVE SplitLines(_)
SplitLines(text) ==
  IF \A i \in DOMAIN text : text[i] # "\n"
  THEN <<text>>
  ELSE LET n == CHOOSE i \in DOMAIN text :
                  text[i] = "\n" /\ \A j \in 1..(i - 1) : text[j] # "\n"
       IN <<SubSeq(text, 1, n - 1)>> \o SplitLines(SubSeq(text, n + 1, Len(text)))

\* line.trim()
RECURSIVE Trim(_)
Trim(line) ==
  IF line = <<>> THEN line
  ELSE IF IsWhitespace(line[1]) THEN Trim(Tail(line))
  ELSE IF IsWhitespace(line[Len(line)]) THEN Trim(SubSeq(line, 1, Len(line) - 1))
  ELSE line

\* slip: the comment lines are not filtered out
IsModelLine_AnyLine(line) == Len(line) > 0

\* line.length > 0 && !line.startsWith('#')
IsModelLine(line) == Len(line) > 0 /\ ~StartsWith(line, <<"#">>)

\* content.split('\n').map(line => line.trim()).filter(...)
readModelsFromFile(text) ==
  LET lines == SplitLines(text)
      trimmed == [i \in DOMAIN lines |-> Trim(lines[i])]
  IN SelectSeq(trimmed, IsModelLine)

(***************************************************************************)
(* The service: the model catalog and the token probe.                     *)
(***************************************************************************)
CatalogListing(rev, ids) == [i \in 1..Len(ids) |-> [id |-> ids[i], rev |-> rev]]

AllIds == SortStrings(ModelIds)

\* the revisions of the catalog metadata a run can meet; the index variant
\* only stores the metadata, so one revision stands for all there
Revisions == IF variant = "csv" THEN 1..MaxRev ELSE {1}

\* what fetch(`${OPENROUTER_API_BASE}/models`) can come back with
CatalogResponses ==
  { [transport |-> "error", ok |-> FALSE, parses |-> FALSE, shape |-> "none", models |-> <<>>],
    [transport |-> "ok", ok |-> FALSE, parses |-> FALSE, shape |-> "none", models |-> <<>>],
    [transport |-> "ok", ok |-> TRUE, parses |-> FALSE, shape |-> "none", models |-> <<>>],
    [transport |-> "ok", ok |-> TRUE, parses |-> TRUE, shape |-> "scalar", models |-> <<>>],
    [transport |-> "ok", ok |-> TRUE, parses |-> TRUE, shape |-> "object", models |-> <<>>] }
  \cup
  { [transport |-> "ok", ok |-> TRUE, parses |-> TRUE, shape |-> sh, models |-> ms] :
      sh \in {"array", "data", "models"},
      ms \in {<<>>} \cup { CatalogListing(r, AllIds) : r \in Revisions } }

Throws == [throws |-> TRUE, value |-> <<>>]
Returns(v) == [throws |-> FALSE, value |-> v]

\* the listing, or the error getAllModels throws
getAllModels(response) ==
  IF response.transport = "error" THEN Throws
  ELSE IF ~response.ok THEN Throws
  ELSE IF ~response.parses THEN Throws
  ELSE IF response.shape \in {"array", "data", "models"} THEN Returns(response.models)
  ELSE Throws

\* allModels.find(m => m.id === modelId) || null, null too when getAllModels throws
getModelInfo(modelId, response) ==
  LET all == getAllModels(response) IN
  IF all.throws THEN null
  ELSE IF \E i \in DOMAIN all.value : all.value[i].id = modelId
       THEN Some(all.value[CHOOSE i \in DOMAIN all.value :
                               /\ all.value[i].id = modelId
                               /\ \A j \in 1..(i-1) : all.value[j].id # modelId])
       ELSE null

\* what fetch(OPENROUTER_API_URL) can come back with; usage is absent (<<>>) or
\* holds prompt_tokens, itself absent or a number; an error status comes with
\* a body that is not JSON or with one that is
ProbeResponses ==
  { [transport |-> "error", ok |-> FALSE, parses |-> FALSE, usage |-> <<>>],
    [transport |-> "ok", ok |-> FALSE, parses |-> FALSE, usage |-> <<>>],
    [transport |-> "ok", ok |-> FALSE, parses |-> TRUE, usage |-> Some([prompt_tokens |-> Some(1)])],
    [transport |-> "ok", ok |-> TRUE, parses |-> FALSE, usage |-> <<>>],
    [transport |-> "ok", ok |-> TRUE, parses |-> TRUE, usage |-> <<>>],
    [transport |-> "ok", ok |-> TRUE, parses |-> TRUE, usage |-> Some([prompt_tokens |-> <<>>])] }
  \cup
  { [transport |-> "ok", ok |-> TRUE, parses |-> TRUE, usage |-> Some([prompt_tokens |-> Some(n)])] :
      n \in 0..MaxTokens }

\* slip: the field is tested for presence
Truthy_Present(optNumber) == optNumber # <<>>

\* the truthiness JavaScript gives an optional number
Truthy(optNumber) == optNumber # <<>> /\ optNumber[1] # 0

\* slip: the status of the response is not looked at
countTokens_IgnoreStatus(response) ==
  IF response.transport = "error" THEN null
  ELSE IF ~response.parses THEN null
  ELSE IF response.usage # <<>> /\ Truthy(response.usage[1].prompt_tokens)
       THEN Some([tokens |-> response.usage[1].prompt_tokens[1]])
       ELSE null

\* TokenCountResult, or null
countTokens(response) ==
  IF response.transport = "error" THEN null
  ELSE IF ~response.ok THEN null
  ELSE IF ~response.parses THEN null
  ELSE IF response.usage # <<>> /\ Truthy(response.usage[1].prompt_tokens)
       THEN Some([tokens |-> response.usage[1].prompt_tokens[1]])
       ELSE null

\* Deno.readTextFileSync(filePath), "" when it throws
readFileContent(outcome) == IF outcome = ReadThrows THEN <<>> ELSE outcome

(***************************************************************************)
(* Tuples of variables, the initial state.                                  *)
(***************************************************************************)
envVars == <<resultsDir, runFiles, reportsJson, clock>>
mainVars == <<runs, doneRuns, mainCalls, mainPc, exitMsg, args, mi, allStats, modelReports, summary, save>>
pmVars == <<pc, modelInfo, files, fi, content, csvLines, results, totalFiles,
            successfulFiles, totalTokens, errors, ret>>
obsVars == <<httpCalls, fileReads, delays, writeCalls, prior, answer>>
vars == <<variant, other, envVars, mainVars, pmVars, obsVars>>

ArtifactNames == { modelIdToFilename(m) : m \in ModelIds }
NoArtifacts == [json |-> Absent, csv |-> Absent]

NoArgs == [modelIds |-> <<>>, override |-> FALSE, languageFilter |-> <<>>]
NoSummary == [totalModels |-> 0, processedModels |-> 0, skippedModels |-> 0,
              modelsWithErrors |-> 0, totalFiles |-> 0, totalSuccessfulFiles |-> 0,
              totalErrors |-> 0, totalTokens |-> 0]
NoSave == [timestamp |-> <<>>, filename |-> <<>>, reports |-> <<>>]

\* what main can find in reports.json when it first runs: nothing, text that
\* is not JSON, JSON that is not an array, or an empty array
Unparseable == <<"UNPARSEABLE">>
NotAnArray == <<"NOT AN ARRAY">>
JsonArray(entries) == <<"ARRAY", entries>>

Init ==
  /\ variant \in {"csv", "index"}
  /\ other = null
  /\ resultsDir = [n \in ArtifactNames |-> NoArtifacts]
  /\ runFiles = {}
  /\ reportsJson \in {Absent, Unparseable, NotAnArray, JsonArray(<<>>)}
  /\ (variant = "csv" => reportsJson = Absent)
  /\ clock = 0
  /\ runs = 0
  /\ doneRuns = 0
  /\ mainCalls = <<>>
  /\ mainPc = "idle"
  /\ exitMsg = ""
  /\ args = NoArgs
  /\ mi = 0
  /\ allStats = <<>>
  /\ modelReports = <<>>
  /\ summary = NoSummary
  /\ save = NoSave
  /\ pc = "none"
  /\ modelInfo = null
  /\ files = <<>>
  /\ fi = 0
  /\ content = <<>>
  /\ csvLines = <<>>
  /\ results = <<>>
  /\ totalFiles = 0
  /\ successfulFiles = 0
  /\ totalTokens = 0
  /\ errors = <<>>
  /\ ret = null
  /\ httpCalls = 0
  /\ fileReads = 0
  /\ delays = 0
  /\ writeCalls = <<>>
  /\ prior = NoArtifacts
  /\ answer = null

(***************************************************************************)
(* main, up to the loop over the models (both variants).                   *)
(***************************************************************************)
NotRunning == mainPc \in {"idle", "done", "exit"}

modelId == args.modelIds[mi]

\* the locals of processModel and what the environment saw of it, as they
\* are when no call has touched them
FreshLocals ==
  /\ modelInfo' = null
  /\ files' = <<>>
  /\ fi' = 0
  /\ content' = <<>>
  /\ csvLines' = <<>>
  /\ results' = <<>>
  /\ totalFiles' = 0
  /\ successfulFiles' = 0
  /\ totalTokens' = 0
  /\ errors' = <<>>
  /\ ret' = null
  /\ httpCalls' = 0
  /\ fileReads' = 0
  /\ delays' = 0
  /\ writeCalls' = <<>>
  /\ answer' = null

\* processModel is called with the id
EnterProcessModel(id) ==
  /\ pc' = (IF variant = "csv" THEN "entry" ELSE "getinfo")
  /\ FreshLocals
  /\ prior' = resultsDir[modelIdToFilename(id)]

\* a new process: nothing is left of the previous one but the files
FreshProcess ==
  /\ runs' = runs + 1
  /\ doneRuns' = doneRuns
  /\ allStats' = <<>>
  /\ modelReports' = <<>>
  /\ summary' = NoSummary
  /\ save' = NoSave

\* the process prints msg and ends with Deno.exit(1) before the loop
FatalStart(msg, calls) ==
  /\ NotRunning
  /\ runs < MaxRuns
  /\ FreshProcess
  /\ mainCalls' = calls
  /\ mainPc' = "exit"
  /\ exitMsg' = msg
  /\ args' = NoArgs
  /\ mi' = 0
  /\ pc' = "none"
  /\ FreshLocals
  /\ prior' = NoArtifacts
  /\ UNCHANGED <<variant, other, envVars>>

\* csv variant: Deno.mkdir(resultsDir, {recursive: true});
\* index variant: Deno.stat(outputDir)
DirectoryCall == IF variant = "csv" THEN "mkdir" ELSE "stat"

NoApiKey == "OPENROUTER_API_KEY not found in environment variables"

\* slip: the key is looked for after the output directory
Main_NoApiKey_AfterDirectory == FatalStart(NoApiKey, <<DirectoryCall>>)

\* OPENROUTER_API_KEY is not set
Main_NoApiKey == FatalStart(NoApiKey, <<>>)

\* csv variant: Deno.mkdir(resultsDir, {recursive: true}) throws;
\* index variant: Deno.stat(outputDir) throws or it is no directory
Main_NoDirectory ==
  FatalStart(IF variant = "csv" THEN "Error creating results directory"
                                ELSE "Output directory does not exist",
             <<DirectoryCall>>)

\* neither --model nor models.txt names a model
Main_NoModels == FatalStart("No models specified", <<DirectoryCall, "readModels">>)

\* the loop over modelIds starts: processModel is called with the first id
Main_StartOn(scenarios) ==
  /\ NotRunning
  /\ runs < MaxRuns
  /\ FreshProcess
  /\ \E sc \in scenarios, ov \in BOOLEAN :
       /\ (variant = "index" => ~ov)
       /\ args' = [modelIds |-> sc.modelIds, override |-> ov,
                   languageFilter |-> sc.languageFilter]
       /\ EnterProcessModel(sc.modelIds[1])
       \* one model is the one --model names; several are the lines of models.txt
       /\ mainCalls' = IF Len(sc.modelIds) = 1 THEN <<DirectoryCall>>
                                                ELSE <<DirectoryCall, "readModels">>
  /\ mainPc' = "loop"
  /\ exitMsg' = ""
  /\ mi' = 1
  /\ UNCHANGED <<variant, other, envVars>>

Main_Start == Main_StartOn(Scenarios)

(***************************************************************************)
(* processModel, csv variant (src/run.ts 1133-1324).                       *)
(***************************************************************************)
Header == <<"filename", "characters", "words", "tokens", "model_id">>

ErrNotFound(id) == [msg |-> "Model not found in API", arg |-> id]
ErrRead(filename) == [msg |-> "Failed to read file", arg |-> filename]
ErrProbe(filename) == [msg |-> "Token counting failed for file", arg |-> filename]
ErrSaveJson == [msg |-> "Failed to save model info", arg |-> <<>>]
ErrSaveCsv == [msg |-> "Failed to save CSV", arg |-> <<>>]

Exists(file) == file # Absent

\* slip: csvExists && jsonExists
ResultsExist_Both(artifact) == Exists(artifact.csv) /\ Exists(artifact.json)

\* slip: only the tabular file is looked for
ResultsExist_CsvOnly(artifact) == Exists(artifact.csv)

\* csvExists || jsonExists
ResultsExist(artifact) == Exists(artifact.csv) \/ Exists(artifact.json)

\* slip: the flag is taken the wrong way round
ShouldSkip_Inverted(override, artifact) == override /\ ResultsExist(artifact)

\* if (!override) { ... if (csvExists || jsonExists) return skipped }
ShouldSkip(override, artifact) == ~override /\ ResultsExist(artifact)

\* slip: errors.length > 1
HasErrors_OffByOne(errs) == Len(errs) > 1

\* if (errors.length > 0): don't save files
HasErrors(errs) == Len(errs) > 0

\* the for-of loop over files: the next file, or the code after the loop
LoopHead(i) == IF i <= Len(files) THEN "read" ELSE "afterloop"

filename == SplitPop(files[fi])

\* slip: the files in scope are reported instead of the files processed
Stats_TotalInScope(skipped, hasErrors, errs) ==
  [modelId |-> modelId, totalFiles |-> Len(files), successfulFiles |-> successfulFiles,
   errors |-> errs, totalTokens |-> totalTokens, skipped |-> skipped, hasErrors |-> hasErrors]

Stats(skipped, hasErrors, errs) ==
  [modelId |-> modelId, totalFiles |-> totalFiles, successfulFiles |-> successfulFiles,
   errors |-> errs, totalTokens |-> totalTokens, skipped |-> skipped, hasErrors |-> hasErrors]

ZeroStats(skipped, hasErrors, errs) ==
  [modelId |-> modelId, totalFiles |-> 0, successfulFiles |-> 0,
   errors |-> errs, totalTokens |-> 0, skipped |-> skipped, hasErrors |-> hasErrors]

\* lines 1149-1181: results already exist and --override is not given
PM_Skip ==
  /\ variant = "csv" /\ pc = "entry"
  /\ ShouldSkip(args.override, resultsDir[modelIdToFilename(modelId)])
  /\ ret' = Some(ZeroStats(TRUE, FALSE, <<>>))
  /\ pc' = "return"
  /\ UNCHANGED <<variant, other, envVars, mainVars, obsVars, modelInfo, files, fi, content,
                 csvLines, results, totalFiles, successfulFiles, totalTokens, errors>>

PM_NoSkip ==
  /\ variant = "csv" /\ pc = "entry"
  /\ ~ShouldSkip(args.override, resultsDir[modelIdToFilename(modelId)])
  /\ pc' = "getinfo"
  /\ UNCHANGED <<variant, other, envVars, mainVars, obsVars, modelInfo, files, fi, content,
                 csvLines, results, totalFiles, successfulFiles, totalTokens, errors, ret>>

\* slip: the return on a model that is not found is missing
PM_GetModelInfo_FallThrough ==
  /\ variant = "csv" /\ pc = "getinfo"
  /\ \E response \in CatalogResponses :
       /\ modelInfo' = getModelInfo(modelId, response)
       /\ answer' = Some(response)
  /\ ret' = ret
  /\ pc' = "files"
  /\ httpCalls' = httpCalls + 1
  /\ UNCHANGED <<variant, other, envVars, mainVars, fileReads, delays, writeCalls, prior, files, fi, content,
                 csvLines, results, totalFiles, successfulFiles, totalTokens, errors>>

\* lines 1183-1197: the catalog is fetched and searched
PM_GetModelInfo ==
  /\ variant = "csv" /\ pc = "getinfo"
  /\ \E response \in CatalogResponses :
       LET info == getModelInfo(modelId, response) IN
       /\ modelInfo' = info
       /\ answer' = Some(response)
       /\ IF info = null
          THEN /\ ret' = Some(ZeroStats(FALSE, TRUE, <<ErrNotFound(modelId)>>))
               /\ pc' = "return"
          ELSE /\ ret' = ret
               /\ pc' = "files"
  /\ httpCalls' = httpCalls + 1
  /\ UNCHANGED <<variant, other, envVars, mainVars, fileReads, delays, writeCalls, prior, files, fi, content,
                 csvLines, results, totalFiles, successfulFiles, totalTokens, errors>>

\* lines 1199-1213: the corpus is listed and the accumulators are set up; the
\* catalog's response is out of reach from here on
PM_ListFiles ==
  /\ variant = "csv" /\ pc = "files"
  /\ files' = getFilesToProcess(args.languageFilter)
  /\ csvLines' = <<Header>>
  /\ totalFiles' = 0 /\ successfulFiles' = 0 /\ totalTokens' = 0 /\ errors' = <<>>
  /\ fi' = 1
  /\ pc' = (IF 1 <= Len(files') THEN "read" ELSE "afterloop")
  /\ answer' = null
  /\ UNCHANGED <<variant, other, envVars, mainVars, httpCalls, fileReads, delays, writeCalls, prior,
                 modelInfo, content, results, ret>>

\* getFilesToProcess: Deno.readDirSync throws, the process ends
PM_ListFilesFails ==
  /\ pc = "files"
  /\ mainPc' = "exit"
  /\ exitMsg' = "Error reading directory ./udhr"
  /\ pc' = "none"
  \* the process has ended: nothing is left of processModel's locals
  /\ FreshLocals
  /\ prior' = NoArtifacts
  /\ UNCHANGED <<variant, other, envVars, runs, doneRuns, mainCalls, args, mi, allStats, modelReports,
                 summary, save>>

\* slip: break in place of continue
PM_ReadFile_Break ==
  /\ variant = "csv" /\ pc = "read"
  /\ \E outcome \in ReadOutcomes(filename) :
       LET text == readFileContent(outcome) IN
       /\ content' = text
       /\ answer' = Some(outcome)
       /\ IF text = <<>>
          THEN /\ errors' = Append(errors, ErrRead(filename))
               /\ fi' = fi
               /\ pc' = "afterloop"
          ELSE /\ errors' = errors
               /\ fi' = fi
               /\ pc' = "probe"
  /\ fileReads' = fileReads + 1
  /\ UNCHANGED <<variant, other, envVars, mainVars, httpCalls, delays, writeCalls, prior, modelInfo, files,
                 csvLines, results, totalFiles, successfulFiles, totalTokens, ret>>

\* lines 1215-1224: the file is read; empty content is a read error and the
\* loop continues with the next file
PM_ReadFile ==
  /\ variant = "csv" /\ pc = "read"
  /\ \E outcome \in ReadOutcomes(filename) :
       LET text == readFileContent(outcome) IN
       /\ content' = text
       /\ answer' = Some(outcome)
       /\ IF text = <<>>
          THEN /\ errors' = Append(errors, ErrRead(filename))
               /\ fi' = fi + 1
               /\ pc' = LoopHead(fi + 1)
          ELSE /\ errors' = errors
               /\ fi' = fi
               /\ pc' = "probe"
  /\ fileReads' = fileReads + 1
  /\ UNCHANGED <<variant, other, envVars, mainVars, httpCalls, delays, writeCalls, prior, modelInfo, files,
                 csvLines, results, totalFiles, successfulFiles, totalTokens, ret>>

\* slip: a probe that failed is sent once more for the same file
PM_CountTokens_Retry ==
  /\ variant = "csv" /\ pc = "probe"
  /\ \E response \in ProbeResponses :
       LET result == countTokens(response) IN
       IF result # null
       THEN /\ csvLines' = Append(csvLines,
                             <<filename, Len(content), countWords(content),
                               result[1].tokens, modelId>>)
            /\ successfulFiles' = successfulFiles + 1
            /\ totalTokens' = totalTokens + result[1].tokens
            /\ errors' = errors
            /\ pc' = "delay"
       ELSE /\ errors' = Append(errors, ErrProbe(filename))
            /\ pc' = (IF \E i \in DOMAIN errors : errors[i] = ErrProbe(filename)
                      THEN "delay" ELSE "probe")
            /\ UNCHANGED <<csvLines, successfulFiles, totalTokens>>
  /\ totalFiles' = totalFiles + 1
  /\ httpCalls' = httpCalls + 1
  /\ answer' = null
  /\ UNCHANGED <<variant, other, envVars, mainVars, fileReads, delays, writeCalls, prior, modelInfo, files, fi,
                 content, results, ret>>

\* lines 1228-1243: the probe, its row or its error, totalFiles++
PM_CountTokens ==
  /\ variant = "csv" /\ pc = "probe"
  /\ \E response \in ProbeResponses :
       LET result == countTokens(response) IN
       IF result # null
       THEN /\ csvLines' = Append(csvLines,
                             <<filename, Len(content), countWords(content),
                               result[1].tokens, modelId>>)
            /\ successfulFiles' = successfulFiles + 1
            /\ totalTokens' = totalTokens + result[1].tokens
            /\ errors' = errors
       ELSE /\ errors' = Append(errors, ErrProbe(filename))
            /\ UNCHANGED <<csvLines, successfulFiles, totalTokens>>
  /\ totalFiles' = totalFiles + 1
  /\ httpCalls' = httpCalls + 1
  /\ pc' = "delay"
  /\ answer' = null
  /\ UNCHANGED <<variant, other, envVars, mainVars, fileReads, delays, writeCalls, prior, modelInfo, files, fi,
                 content, results, ret>>

\* lines 1245-1246: the 500 ms timer, then the next file
PM_Delay ==
  /\ variant = "csv" /\ pc = "delay"
  /\ delays' = delays + 1
  /\ fi' = fi + 1
  /\ pc' = LoopHead(fi + 1)
  /\ UNCHANGED <<variant, other, envVars, mainVars, httpCalls, fileReads, writeCalls, prior, answer, modelInfo, files,
                 content, csvLines, results, totalFiles, successfulFiles, totalTokens,
                 errors, ret>>

\* lines 1249-1262: errors occurred, the files are not saved
PM_ErrorsReturn ==
  /\ variant = "csv" /\ pc = "afterloop"
  /\ HasErrors(errors)
  /\ ret' = Some(Stats(FALSE, TRUE, errors))
  /\ pc' = "return"
  /\ answer' = null
  /\ UNCHANGED <<variant, other, envVars, mainVars, httpCalls, fileReads, delays, writeCalls, prior,
                 modelInfo, files, fi, content,
                 csvLines, results, totalFiles, successfulFiles, totalTokens, errors>>

\* Deno.writeTextFile succeeds and the file holds the text, or it throws and
\* the file is as it was
WriteTextFile(dir, name, kind, text, succeeds) ==
  IF succeeds THEN [dir EXCEPT ![name][kind] = Some(text)] ELSE dir

\* slip: the catch of the model info write does not return
PM_WriteJson_NoReturn ==
  /\ variant = "csv" /\ pc = "afterloop"
  /\ ~HasErrors(errors)
  /\ \E succeeds \in BOOLEAN :
       /\ resultsDir' = WriteTextFile(resultsDir, modelIdToFilename(modelId), "json",
                                      modelInfo[1], succeeds)
       /\ errors' = IF succeeds THEN errors ELSE Append(errors, ErrSaveJson)
       /\ ret' = ret
       /\ pc' = "writecsv"
  /\ writeCalls' = Append(writeCalls, "json")
  /\ UNCHANGED <<variant, other, runFiles, reportsJson, clock, mainVars, httpCalls, fileReads,
                 delays, prior, answer, modelInfo, files,
                 fi, content, csvLines, results, totalFiles, successfulFiles, totalTokens>>

\* lines 1264-1282: the model info is saved, or the failure is returned
PM_WriteJson ==
  /\ variant = "csv" /\ pc = "afterloop"
  /\ ~HasErrors(errors)
  /\ \E succeeds \in BOOLEAN :
       /\ resultsDir' = WriteTextFile(resultsDir, modelIdToFilename(modelId), "json",
                                      modelInfo[1], succeeds)
       /\ IF succeeds
          THEN /\ pc' = "writecsv"
               /\ UNCHANGED <<errors, ret>>
          ELSE /\ errors' = Append(errors, ErrSaveJson)
               /\ ret' = Some(Stats(FALSE, TRUE, errors'))
               /\ pc' = "return"
  /\ writeCalls' = Append(writeCalls, "json")
  /\ UNCHANGED <<variant, other, runFiles, reportsJson, clock, mainVars, httpCalls, fileReads,
                 delays, prior, answer, modelInfo, files,
                 fi, content, csvLines, results, totalFiles, successfulFiles, totalTokens>>

\* lines 1284-1323: the rows are saved, or the failure is returned
PM_WriteCsv ==
  /\ variant = "csv" /\ pc = "writecsv"
  /\ \E succeeds \in BOOLEAN :
       /\ resultsDir' = WriteTextFile(resultsDir, modelIdToFilename(modelId), "csv",
                                      csvLines, succeeds)
       /\ IF succeeds
          THEN /\ errors' = errors
               /\ ret' = Some(Stats(FALSE, HasErrors(errors), errors))
          ELSE /\ errors' = Append(errors, ErrSaveCsv)
               /\ ret' = Some(Stats(FALSE, TRUE, errors'))
  /\ pc' = "return"
  /\ writeCalls' = Append(writeCalls, "csv")
  /\ UNCHANGED <<variant, other, runFiles, reportsJson, clock, mainVars, httpCalls, fileReads,
                 delays, prior, answer, modelInfo, files,
                 fi, content, csvLines, results, totalFiles, successfulFiles, totalTokens>>

(***************************************************************************)
(* main, csv variant: the loop and the totals (src/run.ts 1417-1480).      *)
(***************************************************************************)
RECURSIVE Sum(_)
Sum(numbers) == IF numbers = <<>> THEN 0 ELSE Head(numbers) + Sum(Tail(numbers))

\* slip: a model that returned errors ends the loop
NextModel_StopOnError ==
  IF mi < Len(args.modelIds) /\ (IF variant = "csv" THEN ret[1].errors
                                                     ELSE ret[1].stats.errors) = <<>>
  THEN /\ mi' = mi + 1
       /\ EnterProcessModel(args.modelIds[mi + 1])
       /\ mainPc' = mainPc
  ELSE /\ mi' = mi
       /\ mainPc' = "summary"
       /\ pc' = "none"
       \* the last call has returned: nothing is left of its locals
       /\ FreshLocals
       /\ prior' = NoArtifacts

\* allStats.push(stats), then processModel for the next id or the end of the loop
NextModel ==
  IF mi < Len(args.modelIds)
  THEN /\ mi' = mi + 1
       /\ EnterProcessModel(args.modelIds[mi + 1])
       /\ mainPc' = mainPc
  ELSE /\ mi' = mi
       /\ mainPc' = "summary"
       /\ pc' = "none"
       \* the last call has returned: nothing is left of its locals
       /\ FreshLocals
       /\ prior' = NoArtifacts

Main_PushStats ==
  /\ variant = "csv" /\ mainPc = "loop" /\ pc = "return"
  /\ allStats' = Append(allStats, ret[1])
  /\ NextModel
  /\ UNCHANGED <<variant, other, envVars, runs, doneRuns, mainCalls, exitMsg, args, modelReports, summary, save>>

\* slip: every outcome is counted as processed
csvSummary_AllProcessed(stats) ==
  [totalModels |-> Len(stats),
   processedModels |-> Len(stats),
   skippedModels |-> Cardinality({ i \in DOMAIN stats : stats[i].skipped }),
   modelsWithErrors |->
     Cardinality({ i \in DOMAIN stats : stats[i].hasErrors /\ ~stats[i].skipped }),
   totalFiles |-> Sum([i \in DOMAIN stats |-> stats[i].totalFiles]),
   totalSuccessfulFiles |-> Sum([i \in DOMAIN stats |-> stats[i].successfulFiles]),
   totalErrors |-> Sum([i \in DOMAIN stats |-> Len(stats[i].errors)]),
   totalTokens |-> Sum([i \in DOMAIN stats |-> stats[i].totalTokens])]

csvSummary(stats) ==
  [totalModels |-> Len(stats),
   processedModels |-> Cardinality({ i \in DOMAIN stats : ~stats[i].skipped }),
   skippedModels |-> Cardinality({ i \in DOMAIN stats : stats[i].skipped }),
   modelsWithErrors |->
     Cardinality({ i \in DOMAIN stats : stats[i].hasErrors /\ ~stats[i].skipped }),
   totalFiles |-> Sum([i \in DOMAIN stats |-> stats[i].totalFiles]),
   totalSuccessfulFiles |-> Sum([i \in DOMAIN stats |-> stats[i].successfulFiles]),
   totalErrors |-> Sum([i \in DOMAIN stats |-> Len(stats[i].errors)]),
   totalTokens |-> Sum([i \in DOMAIN stats |-> stats[i].totalTokens])]

Main_Summary ==
  /\ variant = "csv" /\ mainPc = "summary"
  /\ summary' = csvSummary(allStats)
  /\ mainPc' = "done"
  /\ doneRuns' = doneRuns + 1
  /\ UNCHANGED <<variant, other, envVars, pmVars, obsVars, runs, mainCalls, exitMsg, args, mi, allStats,
                 modelReports, save>>

(***************************************************************************)
(* processModel, index variant (src/unnamed/part_001 663-766).             *)
(***************************************************************************)
Report(info, res, nFiles, nOk, nTokens, errs) ==
  [modelId |-> modelId, modelInfo |-> info, results |-> res,
   stats |-> [totalFiles |-> nFiles, successfulFiles |-> nOk,
              totalTokens |-> nTokens, errors |-> errs]]

\* slip: getModelInfo does not catch what getAllModels throws
IX_GetModelInfo_Abort ==
  /\ variant = "index" /\ pc = "getinfo"
  /\ \E response \in CatalogResponses :
       LET info == getModelInfo(modelId, response) IN
       /\ modelInfo' = info
       /\ answer' = Some(response)
       /\ IF getAllModels(response).throws
          THEN /\ ret' = ret
               /\ pc' = "none"
               /\ mainPc' = "exit"
               /\ exitMsg' = "Uncaught (in promise) Error"
          ELSE /\ mainPc' = mainPc
               /\ exitMsg' = exitMsg
               /\ IF info = null
                  THEN /\ ret' = Some(Report(null, <<>>, 0, 0, 0, <<ErrNotFound(modelId)>>))
                       /\ pc' = "return"
                  ELSE /\ ret' = ret
                       /\ pc' = "files"
  /\ httpCalls' = httpCalls + 1
  /\ UNCHANGED <<variant, other, envVars, runs, doneRuns, mainCalls, args, mi, allStats,
                 modelReports, summary, save, fileReads, delays, writeCalls, prior, files, fi,
                 content, csvLines, results, totalFiles, successfulFiles, totalTokens, errors>>

\* lines 672-688
IX_GetModelInfo ==
  /\ variant = "index" /\ pc = "getinfo"
  /\ \E response \in CatalogResponses :
       LET info == getModelInfo(modelId, response) IN
       /\ modelInfo' = info
       /\ answer' = Some(response)
       /\ IF info = null
          THEN /\ ret' = Some(Report(null, <<>>, 0, 0, 0, <<ErrNotFound(modelId)>>))
               /\ pc' = "return"
          ELSE /\ ret' = ret
               /\ pc' = "files"
  /\ httpCalls' = httpCalls + 1
  /\ UNCHANGED <<variant, other, envVars, mainVars, fileReads, delays, writeCalls, prior, files, fi, content,
                 csvLines, results, totalFiles, successfulFiles, totalTokens, errors>>

\* lines 690-702
IX_ListFiles ==
  /\ variant = "index" /\ pc = "files"
  /\ files' = getFilesToProcess(args.languageFilter)
  /\ results' = <<>>
  /\ totalFiles' = 0 /\ successfulFiles' = 0 /\ totalTokens' = 0 /\ errors' = <<>>
  /\ fi' = 1
  /\ pc' = (IF 1 <= Len(files') THEN "read" ELSE "afterloop")
  /\ answer' = null
  /\ UNCHANGED <<variant, other, envVars, mainVars, httpCalls, fileReads, delays, writeCalls, prior,
                 modelInfo, content, csvLines, ret>>

\* slip: only a read that throws is a read error, an empty file is probed
IX_ReadFile_ProbeEmpty ==
  /\ variant = "index" /\ pc = "read"
  /\ \E outcome \in ReadOutcomes(filename) :
       LET text == readFileContent(outcome) IN
       /\ content' = text
       /\ answer' = Some(outcome)
       /\ IF outcome = ReadThrows
          THEN /\ errors' = Append(errors, ErrRead(filename))
               /\ totalFiles' = totalFiles + 1
               /\ fi' = fi + 1
               /\ pc' = LoopHead(fi + 1)
          ELSE /\ errors' = errors
               /\ totalFiles' = totalFiles
               /\ fi' = fi
               /\ pc' = "probe"
  /\ fileReads' = fileReads + 1
  /\ UNCHANGED <<variant, other, envVars, mainVars, httpCalls, delays, writeCalls, prior, modelInfo, files,
                 csvLines, results, successfulFiles, totalTokens, ret>>

\* lines 704-714: a read error is counted in totalFiles
IX_ReadFile ==
  /\ variant = "index" /\ pc = "read"
  /\ \E outcome \in ReadOutcomes(filename) :
       LET text == readFileContent(outcome) IN
       /\ content' = text
       /\ answer' = Some(outcome)
       /\ IF text = <<>>
          THEN /\ errors' = Append(errors, ErrRead(filename))
               /\ totalFiles' = totalFiles + 1
               /\ fi' = fi + 1
               /\ pc' = LoopHead(fi + 1)
          ELSE /\ errors' = errors
               /\ totalFiles' = totalFiles
               /\ fi' = fi
               /\ pc' = "probe"
  /\ fileReads' = fileReads + 1
  /\ UNCHANGED <<variant, other, envVars, mainVars, httpCalls, delays, writeCalls, prior, modelInfo, files,
                 csvLines, results, successfulFiles, totalTokens, ret>>

\* slip: totalTokens = result.tokens in place of +=
IX_CountTokens_Overwrite ==
  /\ variant = "index" /\ pc = "probe"
  /\ \E response \in ProbeResponses :
       LET result == countTokens(response) IN
       IF result # null
       THEN /\ results' = Append(results,
                            [filename |-> filename, characters |-> Len(content),
                             words |-> countWords(content), tokens |-> result[1].tokens])
            /\ successfulFiles' = successfulFiles + 1
            /\ totalTokens' = result[1].tokens
            /\ errors' = errors
       ELSE /\ errors' = Append(errors, ErrProbe(filename))
            /\ UNCHANGED <<results, successfulFiles, totalTokens>>
  /\ totalFiles' = totalFiles + 1
  /\ httpCalls' = httpCalls + 1
  /\ pc' = "delay"
  /\ answer' = null
  /\ UNCHANGED <<variant, other, envVars, mainVars, fileReads, delays, writeCalls, prior, modelInfo, files, fi,
                 content, csvLines, ret>>

\* lines 718-738
IX_CountTokens ==
  /\ variant = "index" /\ pc = "probe"
  /\ \E response \in ProbeResponses :
       LET result == countTokens(response) IN
       IF result # null
       THEN /\ results' = Append(results,
                            [filename |-> filename, characters |-> Len(content),
                             words |-> countWords(content), tokens |-> result[1].tokens])
            /\ successfulFiles' = successfulFiles + 1
            /\ totalTokens' = totalTokens + result[1].tokens
            /\ errors' = errors
       ELSE /\ errors' = Append(errors, ErrProbe(filename))
            /\ UNCHANGED <<results, successfulFiles, totalTokens>>
  /\ totalFiles' = totalFiles + 1
  /\ httpCalls' = httpCalls + 1
  /\ pc' = "delay"
  /\ answer' = null
  /\ UNCHANGED <<variant, other, envVars, mainVars, fileReads, delays, writeCalls, prior, modelInfo, files, fi,
                 content, csvLines, ret>>

\* lines 740-741
IX_Delay ==
  /\ variant = "index" /\ pc = "delay"
  /\ delays' = delays + 1
  /\ fi' = fi + 1
  /\ pc' = LoopHead(fi + 1)
  /\ UNCHANGED <<variant, other, envVars, mainVars, httpCalls, fileReads, writeCalls, prior, answer, modelInfo, files,
                 content, csvLines, results, totalFiles, successfulFiles, totalTokens,
                 errors, ret>>

\* lines 744-765
IX_Return ==
  /\ variant = "index" /\ pc = "afterloop"
  /\ ret' = Some(Report(modelInfo, results, totalFiles, successfulFiles, totalTokens, errors))
  /\ pc' = "return"
  /\ answer' = null
  /\ UNCHANGED <<variant, other, envVars, mainVars, httpCalls, fileReads, delays, writeCalls, prior,
                 modelInfo, files, fi, content,
                 csvLines, results, totalFiles, successfulFiles, totalTokens, errors>>

(***************************************************************************)
(* main, index variant: the loop, the totals, the run file and the index   *)
(* (src/unnamed/part_001 866-937).                                         *)
(***************************************************************************)
IX_PushReport ==
  /\ variant = "index" /\ mainPc = "loop" /\ pc = "return"
  /\ modelReports' = Append(modelReports, ret[1])
  /\ NextModel
  /\ UNCHANGED <<variant, other, envVars, runs, doneRuns, mainCalls, exitMsg, args, allStats, summary, save>>

indexSummary(reports) ==
  [totalModels |-> Len(reports),
   processedModels |-> Cardinality({ i \in DOMAIN reports : reports[i].modelInfo # null }),
   modelsWithErrors |->
     Cardinality({ i \in DOMAIN reports : Len(reports[i].stats.errors) > 0 }),
   totalFiles |-> Sum([i \in DOMAIN reports |-> reports[i].stats.totalFiles]),
   totalSuccessfulFiles |-> Sum([i \in DOMAIN reports |-> reports[i].stats.successfulFiles]),
   totalErrors |-> Sum([i \in DOMAIN reports |-> Len(reports[i].stats.errors)]),
   totalTokens |-> Sum([i \in DOMAIN reports |-> reports[i].stats.totalTokens])]

IX_Summary ==
  /\ variant = "index" /\ mainPc = "summary"
  /\ summary' = indexSummary(modelReports)
  /\ mainPc' = "save"
  /\ UNCHANGED <<variant, other, envVars, pmVars, obsVars, runs, doneRuns, mainCalls, exitMsg, args, mi, allStats,
                 modelReports, save>>

\* now.toISOString(): date, T, hours, minutes, seconds, milliseconds, Z
toISOString(ms) ==
  <<"1970-01-01", "T", "00", ":", "00", ":", ToString(ms \div MsPerSec), ".",
    ToString(ms % MsPerSec), "Z">>

\* .replace(/[:.]/g, '-')
ReplaceColonsAndDots(str) ==
  [i \in DOMAIN str |-> IF str[i] \in {":", "."} THEN "-" ELSE str[i]]

\* .replace('T', '_'): the first T only
ReplaceFirstT(str) ==
  [i \in DOMAIN str |->
     IF str[i] = "T" /\ \A j \in 1..(i-1) : str[j] # "T" THEN "_" ELSE str[i]]

\* .split('Z')[0]
BeforeFirstZ(str) ==
  IF \E i \in DOMAIN str : str[i] = "Z"
  THEN SubSeq(str, 1, (CHOOSE i \in DOMAIN str :
                         str[i] = "Z" /\ \A j \in 1..(i-1) : str[j] # "Z") - 1)
  ELSE str

\* slip: the string is cut at the seconds
Timestamp_Seconds(ms) ==
  BeforeFirstZ(ReplaceFirstT(ReplaceColonsAndDots(SubSeq(toISOString(ms), 1, 7))))

Timestamp(ms) == BeforeFirstZ(ReplaceFirstT(ReplaceColonsAndDots(toISOString(ms))))

\* modelReports.length > 0 ? modelReports[0].stats.totalFiles : 0
LangCount(reports) == IF Len(reports) > 0 THEN reports[1].stats.totalFiles ELSE 0

\* `${timestamp}_${langCount}langs_${totalModels}models.json`
RunFilename(timestamp, langCount, totalModels) ==
  timestamp \o <<"_", ToString(langCount), "langs_", ToString(totalModels), "models.json">>

\* new Date(): a run takes time (it sends at least one request), so the
\* clock is past the previous run's capture; the model takes the least
\* advance, a millisecond
Now == clock + 1

\* slip: a failed write of the run file does not end the run
IX_SaveReport_Continue ==
  /\ variant = "index" /\ mainPc = "save"
  /\ \E succeeds \in BOOLEAN :
       LET timestamp == Timestamp(Now)
           name == RunFilename(timestamp, LangCount(modelReports), summary.totalModels)
       IN /\ clock' = Now
          /\ save' = [timestamp |-> timestamp, filename |-> name, reports |-> <<>>]
          /\ runFiles' = IF succeeds
                         THEN { f \in runFiles : f.filename # name }
                                \cup { [filename |-> name, summary |-> summary] }
                         ELSE runFiles
          /\ mainPc' = "readindex"
          /\ exitMsg' = exitMsg
  /\ UNCHANGED <<variant, other, resultsDir, reportsJson, pmVars, obsVars, runs, doneRuns, mainCalls, args, mi, allStats,
                 modelReports, summary>>

\* lines 899-908: the name is made from the clock and the run file is written
IX_SaveReport ==
  /\ variant = "index" /\ mainPc = "save"
  /\ \E succeeds \in BOOLEAN :
       LET timestamp == Timestamp(Now)
           name == RunFilename(timestamp, LangCount(modelReports), summary.totalModels)
       IN /\ clock' = Now
          /\ save' = [timestamp |-> timestamp, filename |-> name, reports |-> <<>>]
          /\ IF succeeds
             THEN /\ runFiles' = { f \in runFiles : f.filename # name }
                                   \cup { [filename |-> name, summary |-> summary] }
                  /\ mainPc' = "readindex"
                  /\ exitMsg' = exitMsg
             ELSE /\ runFiles' = runFiles
                  /\ mainPc' = "exit"
                  /\ exitMsg' = "Error saving report"
  /\ UNCHANGED <<variant, other, resultsDir, reportsJson, pmVars, obsVars, runs, doneRuns, mainCalls, args, mi, allStats,
                 modelReports, summary>>

\* slip: the parsed array is not kept
ParseReports_StartNew(text) == <<>>

\* JSON.parse(existingContent), kept if Array.isArray; [] when the file does
\* not exist or is not JSON
ParseReports(text) ==
  IF text = Absent THEN <<>>
  ELSE IF text = Unparseable THEN <<>>
  ELSE IF text = NotAnArray THEN <<>>
  ELSE text[2]

\* lines 910-921
IX_ReadIndex ==
  /\ variant = "index" /\ mainPc = "readindex"
  /\ save' = [save EXCEPT !.reports = ParseReports(reportsJson)]
  /\ mainPc' = "writeindex"
  /\ UNCHANGED <<variant, other, envVars, pmVars, obsVars, runs, doneRuns, mainCalls, exitMsg, args, mi, allStats,
                 modelReports, summary>>

\* slip: the entry is made before the totals are known
ReportIndexEntry_NoSummary ==
  [filename |-> save.filename, timestamp |-> save.timestamp, summary |-> NoSummary]

ReportIndexEntry == [filename |-> save.filename, timestamp |-> save.timestamp, summary |-> summary]

\* slip: the entry is pushed onto the index as it is at the time of the write
IX_WriteIndex_Reread ==
  /\ variant = "index" /\ mainPc = "writeindex"
  /\ \E succeeds \in BOOLEAN :
       LET reports == Append(ParseReports(reportsJson), ReportIndexEntry) IN
       /\ save' = [save EXCEPT !.reports = reports]
       /\ IF succeeds
          THEN /\ reportsJson' = JsonArray(reports)
               /\ mainPc' = "done"
               /\ doneRuns' = doneRuns + 1
               /\ exitMsg' = exitMsg
          ELSE /\ reportsJson' = reportsJson
               /\ mainPc' = "exit"
               /\ doneRuns' = doneRuns
               /\ exitMsg' = "Error saving report"
  /\ UNCHANGED <<variant, other, resultsDir, runFiles, clock, pmVars, obsVars, runs, mainCalls, args, mi,
                 allStats, modelReports, summary>>

\* lines 923-937: the entry is pushed and the whole index written back
IX_WriteIndex ==
  /\ variant = "index" /\ mainPc = "writeindex"
  /\ \E succeeds \in BOOLEAN :
       LET reports == Append(save.reports, ReportIndexEntry) IN
       /\ save' = [save EXCEPT !.reports = reports]
       /\ IF succeeds
          THEN /\ reportsJson' = JsonArray(reports)
               /\ mainPc' = "done"
               /\ doneRuns' = doneRuns + 1
               /\ exitMsg' = exitMsg
          ELSE /\ reportsJson' = reportsJson
               /\ mainPc' = "exit"
               /\ doneRuns' = doneRuns
               /\ exitMsg' = "Error saving report"
  /\ UNCHANGED <<variant, other, resultsDir, runFiles, clock, pmVars, obsVars, runs, mainCalls, args, mi,
                 allStats, modelReports, summary>>

(***************************************************************************)
(* The specification.                                                      *)
(***************************************************************************)
Next ==
  \/ Main_NoApiKey \/ Main_NoDirectory \/ Main_NoModels \/ Main_Start
  \/ PM_Skip \/ PM_NoSkip \/ PM_GetModelInfo \/ PM_ListFiles \/ PM_ListFilesFails
  \/ PM_ReadFile \/ PM_CountTokens \/ PM_Delay
  \/ PM_ErrorsReturn \/ PM_WriteJson \/ PM_WriteCsv
  \/ Main_PushStats \/ Main_Summary
  \/ IX_GetModelInfo \/ IX_ListFiles \/ IX_ReadFile \/ IX_CountTokens \/ IX_Delay \/ IX_Return
  \/ IX_PushReport \/ IX_Summary \/ IX_SaveReport \/ IX_ReadIndex \/ IX_WriteIndex

Spec == Init /\ [][Next]_vars

\* the process is single-threaded and every await of it settles (a request
\* is answered or fails, a timer fires, a file operation ends): whenever a
\* step can be taken, one eventually is
FairSpec == Spec /\ WF_vars(Next)

(***************************************************************************)
(* Functions each on its own: getFilesToProcess over the --language        *)
(* values, readModelsFromFile over the texts of models.txt, countTokens    *)
(* over the responses of the service, up to the bounds.                    *)
(***************************************************************************)

Strings(alphabet, n) == UNION { [1..k -> alphabet] : k \in 0..n }

\* --language values: short ones over the letters of the corpus' names, the
\* reserved name, and a name with its extension
LanguageFilters ==
  Strings({"a", "b", "c", "d"}, MaxFilterLen)
    \cup {<<"m", "o", "d", "e", "l", "s">>, <<"a", ".", "t", "x", "t">>}

\* texts of models.txt: identifiers, comment marks, blanks and line ends
ModelsFileTexts == Strings({"a", "b", "#", " ", "\n"}, MaxTextLen)

FnInit ==
  /\ variant \in {"csv", "index"}
  /\ other = null
  /\ resultsDir = [n \in ArtifactNames |-> NoArtifacts]
  /\ runFiles = {}
  /\ reportsJson = Absent
  /\ clock = 0
  /\ runs = 0
  /\ doneRuns = 0
  /\ mainCalls = <<>>
  /\ mainPc = "call"
  /\ exitMsg = ""
  /\ \/ /\ pc = "getFilesToProcess"
        /\ \E f \in LanguageFilters : args = [NoArgs EXCEPT !.languageFilter = f]
        /\ content = <<>>
        /\ answer = null
     \/ /\ pc = "readModelsFromFile"
        /\ args = NoArgs
        /\ content \in ModelsFileTexts
        /\ answer = null
     \/ /\ pc = "countTokens"
        /\ args = NoArgs
        /\ content = <<>>
        /\ \E response \in ProbeResponses : answer = Some(response)
  /\ mi = 0
  /\ allStats = <<>>
  /\ modelReports = <<>>
  /\ summary = NoSummary
  /\ save = NoSave
  /\ modelInfo = null
  /\ files = <<>>
  /\ fi = 0
  /\ csvLines = <<>>
  /\ results = <<>>
  /\ totalFiles = 0
  /\ successfulFiles = 0
  /\ totalTokens = 0
  /\ errors = <<>>
  /\ ret = null
  /\ httpCalls = 0
  /\ fileReads = 0
  /\ delays = 0
  /\ writeCalls = <<>>
  /\ prior = NoArtifacts

\* getFilesToProcess(languageFilter): the sorted list, or Deno.exit(1) when
\* Deno.readDirSync throws
Fn_getFilesToProcess ==
  /\ mainPc = "call" /\ pc = "getFilesToProcess"
  /\ \E readable \in BOOLEAN :
       IF readable
       THEN /\ files' = getFilesToProcess(args.languageFilter)
            /\ mainPc' = "returned"
            /\ exitMsg' = exitMsg
       ELSE /\ files' = files
            /\ mainPc' = "exit"
            /\ exitMsg' = "Error reading directory ./udhr"
  /\ UNCHANGED <<variant, other, envVars, obsVars, runs, doneRuns, mainCalls, args, mi, allStats,
                 modelReports, summary, save, pc, modelInfo, fi, content, csvLines,
                 results, totalFiles, successfulFiles, totalTokens, errors, ret>>

\* readModelsFromFile(): the model ids of the text, or Deno.exit(1) when
\* Deno.readTextFileSync throws
Fn_readModelsFromFile ==
  /\ mainPc = "call" /\ pc = "readModelsFromFile"
  /\ \E readable \in BOOLEAN :
       IF readable
       THEN /\ args' = [args EXCEPT !.modelIds = readModelsFromFile(content)]
            /\ mainPc' = "returned"
            /\ exitMsg' = exitMsg
       ELSE /\ args' = args
            /\ mainPc' = "exit"
            /\ exitMsg' = "Error reading ./models.txt"
  /\ UNCHANGED <<variant, other, envVars, pmVars, obsVars, runs, doneRuns, mainCalls, mi, allStats,
                 modelReports, summary, save>>

\* countTokens(text, filename, modelId, apiKey) when fetch comes back with the
\* response: it returns its result, whatever the response
Fn_countTokens ==
  /\ mainPc = "call" /\ pc = "countTokens"
  /\ ret' = countTokens(answer[1])
  /\ mainPc' = "returned"
  /\ UNCHANGED <<variant, other, envVars, obsVars, runs, doneRuns, mainCalls, exitMsg, args, mi,
                 allStats, modelReports, summary, save, pc, modelInfo, files, fi, content,
                 csvLines, results, totalFiles, successfulFiles, totalTokens, errors>>

FnNext == Fn_getFilesToProcess \/ Fn_readModelsFromFile \/ Fn_countTokens

FnSpec == FnInit /\ [][FnNext]_vars

(***************************************************************************)
(* The csv variant run over model lists with two ids of one artifact name. *)
(***************************************************************************)
CollisionInit == Init /\ variant = "csv"

Main_StartColliding == Main_StartOn(CollidingScenarios)

CollisionNext ==
  \/ Main_StartColliding
  \/ PM_Skip \/ PM_NoSkip \/ PM_GetModelInfo \/ PM_ListFiles \/ PM_ListFilesFails
  \/ PM_ReadFile \/ PM_CountTokens \/ PM_Delay
  \/ PM_ErrorsReturn \/ PM_WriteJson \/ PM_WriteCsv
  \/ Main_PushStats \/ Main_Summary

CollisionSpec == CollisionInit /\ [][CollisionNext]_vars

(***************************************************************************)
(* Two invocations of the index variant at once against one output         *)
(* directory.  Each is a process of its own and both have ended their      *)
(* loops; the file system and the clock are shared.  One invocation takes  *)
(* steps while the other waits; between two file operations the other may  *)
(* be the one to go on.  Each file operation is taken as atomic.           *)
(***************************************************************************)
\* what the loop of `--model a/b --language a` can leave in modelReports
RaceReports ==
  { <<[modelId |-> M1, modelInfo |-> null, results |-> <<>>,
       stats |-> [totalFiles |-> 0, successfulFiles |-> 0, totalTokens |-> 0,
                  errors |-> <<ErrNotFound(M1)>>]]>>,
    <<[modelId |-> M1, modelInfo |-> Some([id |-> M1, rev |-> 1]), results |-> <<>>,
       stats |-> [totalFiles |-> 1, successfulFiles |-> 0, totalTokens |-> 0,
                  errors |-> <<ErrRead(<<"a", ".", "t", "x", "t">>)>>]]>> }

RaceArgs == [modelIds |-> <<M1>>, override |-> FALSE, languageFilter |-> <<"a">>]

\* what main holds from the end of its loop on
Waiting(reports) ==
  [mainPc |-> "summary", exitMsg |-> "", args |-> RaceArgs, mi |-> 1,
   modelReports |-> reports, summary |-> NoSummary, save |-> NoSave]

RaceInit ==
  /\ variant = "index"
  /\ resultsDir = [n \in ArtifactNames |-> NoArtifacts]
  /\ runFiles = {}
  /\ reportsJson \in {Absent, Unparseable, NotAnArray, JsonArray(<<>>)}
  /\ clock = 0
  /\ runs = 2
  /\ doneRuns = 0
  /\ mainCalls = <<DirectoryCall>>
  /\ mainPc = "summary"
  /\ exitMsg = ""
  /\ args = RaceArgs
  /\ mi = 1
  /\ allStats = <<>>
  /\ modelReports \in RaceReports
  /\ summary = NoSummary
  /\ save = NoSave
  /\ \E reports \in RaceReports : other = Some(Waiting(reports))
  /\ pc = "none"
  /\ modelInfo = null
  /\ files = <<>>
  /\ fi = 0
  /\ content = <<>>
  /\ csvLines = <<>>
  /\ results = <<>>
  /\ totalFiles = 0
  /\ successfulFiles = 0
  /\ totalTokens = 0
  /\ errors = <<>>
  /\ ret = null
  /\ httpCalls = 0
  /\ fileReads = 0
  /\ delays = 0
  /\ writeCalls = <<>>
  /\ prior = NoArtifacts
  /\ answer = null

\* the invocation that waited goes on and the one that took steps waits
Switch ==
  /\ other # null
  /\ other[1].mainPc \notin {"done", "exit"}
  /\ other' = Some([mainPc |-> mainPc, exitMsg |-> exitMsg, args |-> args, mi |-> mi,
                    modelReports |-> modelReports, summary |-> summary, save |-> save])
  /\ mainPc' = other[1].mainPc
  /\ exitMsg' = other[1].exitMsg
  /\ args' = other[1].args
  /\ mi' = other[1].mi
  /\ modelReports' = other[1].modelReports
  /\ summary' = other[1].summary
  /\ save' = other[1].save
  /\ UNCHANGED <<variant, envVars, pmVars, obsVars, runs, doneRuns, mainCalls, allStats>>

RaceNext == IX_Summary \/ IX_SaveReport \/ IX_ReadIndex \/ IX_WriteIndex \/ Switch

RaceSpec == RaceInit /\ [][RaceNext]_vars

(***************************************************************************)
(* Claims.                                                                 *)
(***************************************************************************)
artifactName == modelIdToFilename(modelId)
artifact == resultsDir[artifactName]

IsFileError(e) == e.msg \in {ErrRead(<<>>).msg, ErrProbe(<<>>).msg}
SomeFileError == \E i \in DOMAIN errors : IsFileError(errors[i])

\* the loop over the files has ended
LoopOver == fi = Len(files) + 1

Skipped == ZeroStats(TRUE, FALSE, <<>>)

\* an artifact of the model was in the output directory when processModel began
PriorExists == prior.json # Absent \/ prior.csv # Absent

\* C1 (csv variant): while processModel holds a read or probe error, it has
\* called Deno.writeTextFile for neither artifact and both are as they were
\* when it was entered; it calls writeTextFile only after the file loop and
\* with an error list that held no error when the loop ended.
C1_ArtifactsOnlyWithoutErrors ==
  (variant = "csv" /\ pc # "none") =>
    /\ SomeFileError => (writeCalls = <<>> /\ artifact = prior)
    /\ writeCalls # <<>> => (LoopOver /\ ~SomeFileError)
    /\ artifact # prior => writeCalls # <<>>

\* a run that was to replace existing artifacts (--override) returns with a
\* file error
C1_Witness ==
  /\ variant = "csv" /\ pc = "return"
  /\ args.override /\ PriorExists
  /\ SomeFileError /\ successfulFiles > 0

\* C2 (csv variant): once processModel, entered without --override while an
\* artifact of the model existed, has passed its check, it is returning the
\* Skipped outcome (skipped, no error, all totals zero) and has sent no
\* request and opened no corpus file.
C2_SkipWithoutAnyCall ==
  (variant = "csv" /\ pc \notin {"none", "entry"} /\ ~args.override /\ PriorExists) =>
    /\ pc = "return"
    /\ ret = Some(Skipped)
    /\ httpCalls = 0
    /\ fileReads = 0

\* the skip was taken with only one of the two artifacts present
C2_Witness ==
  /\ variant = "csv" /\ pc = "return" /\ ~args.override
  /\ Exists(prior.json) /\ ~Exists(prior.csv)
  /\ ret = Some(Skipped)

\* C3 (csv variant): every return of processModel that was entered without
\* --override while an artifact of the model existed is the Skipped outcome,
\* with every artifact file of the directory as it was and no write
\* attempted; this holds in each later run alike.
C3_SkipLeavesArtifacts ==
  (variant = "csv" /\ pc = "return" /\ ~args.override /\ PriorExists) =>
    /\ ret[1].skipped /\ ~ret[1].hasErrors
    /\ artifact = prior
    /\ writeCalls = <<>>

\* the model is skipped in a third encounter: both artifacts were written,
\* then found again
C3_Witness ==
  /\ variant = "csv" /\ pc = "return" /\ ~args.override
  /\ Exists(prior.json) /\ Exists(prior.csv)
  /\ ret[1].skipped /\ artifact = prior
  /\ runs = MaxRuns

\* C4 (csv variant), as claimed: an --override run that returns with
\* hasErrors has left every artifact that existed before it with the content
\* it had.
C4_FailedOverrideKeepsArtifacts ==
  (variant = "csv" /\ pc = "return" /\ args.override /\ ret[1].hasErrors) =>
    /\ Exists(prior.json) => artifact.json = prior.json
    /\ Exists(prior.csv) => artifact.csv = prior.csv

\* the entries of the index file, [] when it is absent or no JSON array
IndexEntries(text) == IF Len(text) = 2 THEN text[2] ELSE <<>>

\* C5 (index variant): every step that changes reports.json leaves it a
\* JSON array holding the entries it held before, unchanged and in order,
\* followed by one entry, that of the running invocation; whatever the file
\* held before (nothing, no JSON, no array, an array).  An invocation
\* reaches its end by exactly such a step.
C5_IndexAppendOnly ==
  [][variant = "index" =>
       /\ reportsJson' # reportsJson =>
            /\ reportsJson' = JsonArray(IndexEntries(reportsJson'))
            /\ IndexEntries(reportsJson') =
                 Append(IndexEntries(reportsJson),
                        [filename |-> save'.filename, timestamp |-> save'.timestamp,
                         summary |-> summary'])
       /\ (mainPc # "done" /\ mainPc' = "done") =>
            Len(IndexEntries(reportsJson')) = Len(IndexEntries(reportsJson)) + 1]_vars

\* a second invocation has appended to the entry of the first
C5_Witness ==
  /\ variant = "index" /\ mainPc = "done"
  /\ Len(IndexEntries(reportsJson)) = 2
  /\ IndexEntries(reportsJson)[1].summary # IndexEntries(reportsJson)[2].summary

\* C6 (index variant): the index holds as many entries as invocations ran to
\* their end, and no two entries have the same timestamp or the same
\* filename, whatever failures of models or files the invocations met.
C6_IndexMonotonic ==
  variant = "index" =>
    LET entries == IndexEntries(reportsJson) IN
    /\ Len(entries) = doneRuns
    /\ \A i, j \in DOMAIN entries :
         i # j => /\ entries[i].timestamp # entries[j].timestamp
                  /\ entries[i].filename # entries[j].filename

\* two invocations ended, one of them with errors
C6_Witness ==
  /\ variant = "index" /\ doneRuns = 2
  /\ Len(IndexEntries(reportsJson)) = 2
  /\ IndexEntries(reportsJson)[1].summary.totalErrors > 0
  /\ IndexEntries(reportsJson)[2].summary.totalErrors = 0

\* the invocation ended and its entry, with its totals, is the last of the index
RunAppended ==
  /\ mainPc = "done"
  /\ LET entries == IndexEntries(reportsJson) IN
     /\ Len(entries) = Len(save.reports) /\ Len(entries) > 0
     /\ entries[Len(entries)].summary = summary
     /\ entries[Len(entries)].filename = save.filename
     /\ summary.totalModels = Len(args.modelIds)

\* the process ended because the corpus directory could not be listed or a
\* file of the output directory could not be written
FatalExit ==
  /\ mainPc = "exit"
  /\ exitMsg \in {"Error reading directory ./udhr", "Error saving report"}

\* C7 (index variant): every invocation that has entered the loop over the
\* models comes to its end with its entry appended, whatever models are not
\* found and whatever files cannot be read or probed; the only other way it
\* ends is the fatal exit on an unreadable corpus directory or a failed
\* write.
C7_RunAlwaysAppends ==
  \A n \in 1..MaxRuns :
    (variant = "index" /\ mainPc = "loop" /\ runs = n)
      ~> (runs = n /\ (RunAppended \/ FatalExit))

\* an invocation in which a model was not found and a file failed is appended
C7_Witness ==
  /\ variant = "index" /\ RunAppended
  /\ summary.processedModels < summary.totalModels
  /\ summary.totalFiles > summary.totalSuccessfulFiles

\* the outcomes main has collected so far
outcomes == IF variant = "csv" THEN allStats ELSE modelReports

\* C8 (both variants): while main is in its loop, the model being processed
\* is the entry of the list after those whose outcomes are collected; the
\* collected outcomes are those of the list's entries, one each, in list
\* order; and when the loop is over there are as many outcomes as model ids,
\* whatever outcome (failed, skipped) any of them is.
C8_OncePerModelInOrder ==
  /\ (mainPc = "loop" /\ pc # "none") =>
       /\ mi \in 1..Len(args.modelIds)
       /\ Len(outcomes) = mi - 1
  /\ mainPc \in {"loop", "summary", "save", "readindex", "writeindex", "done"} =>
       /\ Len(outcomes) <= Len(args.modelIds)
       /\ \A i \in DOMAIN outcomes : outcomes[i].modelId = args.modelIds[i]
  /\ mainPc \in {"summary", "save", "readindex", "writeindex", "done"} =>
       Len(outcomes) = Len(args.modelIds)

\* the first of two models failed or was skipped and the second was probed
C8_Witness ==
  /\ mainPc = "done" /\ Len(args.modelIds) = 2 /\ Len(outcomes) = 2
  /\ IF variant = "csv"
     THEN (outcomes[1].hasErrors \/ outcomes[1].skipped) /\ outcomes[2].successfulFiles > 0
     ELSE outcomes[1].stats.errors # <<>> /\ outcomes[2].stats.successfulFiles > 0

\* the data rows of a tabular file: its lines after the header
DataRows(lines) == IF lines = <<>> THEN <<>> ELSE Tail(lines)

\* strictly ascending by code units, hence without repetition
Ascending(names) ==
  \A i, j \in DOMAIN names : i < j => LexLess(names[i], names[j])

Distinct(names) == Cardinality({ names[i] : i \in DOMAIN names })

IsProbeError(e) == e.msg = ErrProbe(<<>>).msg

ProbeErrors(errs) == Cardinality({ i \in DOMAIN errs : IsProbeError(errs[i]) })

\* C10 as stated: every outcome of processModel, in both variants, has
\* totalFiles = successfulFiles + length(errors).
C10_TotalIsSuccessPlusErrors ==
  pc = "return" =>
    IF variant = "index"
    THEN ret[1].stats.totalFiles =
           ret[1].stats.successfulFiles + Len(ret[1].stats.errors)
    ELSE ret[1].totalFiles = ret[1].successfulFiles + Len(ret[1].errors)

\* C10 (amended): every outcome has totalFiles <= successfulFiles +
\* length(errors).  In part_001 the two are equal when the model was found,
\* and a model not found gives totalFiles = successfulFiles = 0 with one
\* error.  In run.ts totalFiles = successfulFiles + the number of probe
\* errors: read errors, the model-not-found error and the errors of failed
\* artifact writes are in errors but not in totalFiles.
C10_TotalCountsProbedFiles ==
  pc = "return" =>
    IF variant = "index"
    THEN LET st == ret[1].stats IN
         /\ st.totalFiles <= st.successfulFiles + Len(st.errors)
         /\ ret[1].modelInfo # null =>
              st.totalFiles = st.successfulFiles + Len(st.errors)
         /\ ret[1].modelInfo = null =>
              st.totalFiles = 0 /\ st.successfulFiles = 0 /\ Len(st.errors) = 1
    ELSE /\ ret[1].totalFiles <= ret[1].successfulFiles + Len(ret[1].errors)
         /\ ret[1].totalFiles = ret[1].successfulFiles + ProbeErrors(ret[1].errors)

\* a read error and a probe error in one invocation of run.ts
C10_Witness ==
  /\ variant = "csv" /\ pc = "return"
  /\ Len(ret[1].errors) = 2
  /\ ProbeErrors(ret[1].errors) = 1
  /\ ret[1].totalFiles = 1

\* the sum of the tokens of a sequence of results
RECURSIVE TokenSum(_)
TokenSum(res) == IF res = <<>> THEN 0 ELSE res[1].tokens + TokenSum(Tail(res))

\* C11 (index variant): all through processModel the running totalTokens is
\* the sum of the tokens of the results appended so far, and the report it
\* returns has stats.totalTokens equal to the sum of the tokens of its
\* results.
C11_TotalTokensIsSum ==
  (variant = "index" /\ pc # "none") =>
    /\ totalTokens = TokenSum(results)
    /\ pc = "return" =>
         /\ ret[1].stats.totalTokens = TokenSum(ret[1].results)
         /\ ret[1].results = results

\* two files were probed and both counted
C11_Witness ==
  /\ variant = "index" /\ pc = "return"
  /\ Len(ret[1].results) = 2
  /\ ret[1].stats.totalTokens = ret[1].results[1].tokens + ret[1].results[2].tokens
  /\ ret[1].stats.totalTokens >= 2

\* a regular .txt file of the corpus directory other than models.txt
IsCorpusFile(e) == e.isFile /\ EndsWith(e.name, DotTxt) /\ e.name # ModelsTxt

PathOf(name) == UdhrPath \o <<"/">> \o name

\* C12: getFilesToProcess returns, in ascending order and without
\* repetition, the paths of exactly these entries of ./udhr: without a
\* filter every regular .txt file but models.txt; with a filter the one such
\* file named <filter>.txt, if there is one, and nothing else (no file whose
\* name only begins with or contains the filter).
C12_ExactFilterMatch ==
  (mainPc = "returned" /\ pc = "getFilesToProcess") =>
    LET f == args.languageFilter
        expected ==
          { PathOf(e.name) :
              e \in { d \in UdhrDir :
                        IsCorpusFile(d) /\ (f # <<>> => d.name = f \o DotTxt) } }
    IN /\ { files[i] : i \in DOMAIN files } = expected
       /\ Len(files) = Cardinality(expected)
       /\ Ascending(files)
       /\ f # <<>> => Len(files) <= 1
       /\ \A i \in DOMAIN files : files[i] # PathOf(ModelsTxt)

\* the filter a selects a.txt and not ab.txt
C12_Witness ==
  /\ mainPc = "returned" /\ pc = "getFilesToProcess"
  /\ args.languageFilter = <<"a">>
  /\ files = <<PathOf(<<"a", ".", "t", "x", "t">>)>>
  /\ \E e \in UdhrDir : IsCorpusFile(e) /\ e.name = <<"a", "b", ".", "t", "x", "t">>

\* the positions of the line ends of a text
LineEnds(text) == { i \in DOMAIN text : text[i] = "\n" }

\* the k-th line of a text: what stands between the (k-1)-th line end (or
\* the start) and the k-th (or the end)
LineOf(text, k) ==
  LET endAt(n) == IF n = 0 THEN 0
                  ELSE IF n > Cardinality(LineEnds(text)) THEN Len(text) + 1
                  ELSE CHOOSE i \in LineEnds(text) :
                         Cardinality({ j \in LineEnds(text) : j <= i }) = n
  IN SubSeq(text, endAt(k - 1) + 1, endAt(k) - 1)

LinesOf(text) == [k \in 1..(Cardinality(LineEnds(text)) + 1) |-> LineOf(text, k)]

\* the positions of a line that hold something else than a blank
Inked(line) == { i \in DOMAIN line : line[i] # " " }

FirstInk(line) == CHOOSE i \in Inked(line) : \A j \in Inked(line) : i <= j

LastInk(line) == CHOOSE i \in Inked(line) : \A j \in Inked(line) : j <= i

\* a line without its leading and trailing blanks
Core(line) == IF Inked(line) = {} THEN <<>> ELSE SubSeq(line, FirstInk(line), LastInk(line))

\* a line that is not blank and does not begin with #
IsListedLine(line) == Inked(line) # {} /\ line[1] # "#"

\* a line whose first character that is no blank is not #
IsListedCore(line) == Inked(line) # {} /\ line[FirstInk(line)] # "#"

\* C13 as stated: readModelsFromFile returns exactly the lines of the file
\* that are not blank and do not begin with #, in file order.
C13_ReturnsListedLines ==
  (mainPc = "returned" /\ pc = "readModelsFromFile") =>
    args.modelIds = SelectSeq(LinesOf(content), IsListedLine)

\* C13 (amended): readModelsFromFile returns, in file order, the lines of
\* the file with their leading and trailing whitespace removed, leaving out
\* those that are then empty and those that then begin with #: a line of
\* blanks before a # is left out, and an identifier between blanks is
\* returned without them.
C13_ReturnsTrimmedListedLines ==
  (mainPc = "returned" /\ pc = "readModelsFromFile") =>
    LET kept == SelectSeq(LinesOf(content), IsListedCore) IN
    /\ Len(args.modelIds) = Len(kept)
    /\ \A i \in DOMAIN kept : args.modelIds[i] = Core(kept[i])

\* two identifiers in file order, the second one indented
C13_Witness ==
  /\ mainPc = "returned" /\ pc = "readModelsFromFile"
  /\ content = <<"b", "\n", " ", "a">>
  /\ args.modelIds = << <<"b">>, <<"a">> >>

\* the total of a sequence of numbers
RECURSIVE SeqTotal(_)
SeqTotal(numbers) ==
  IF Len(numbers) = 0 THEN 0
  ELSE numbers[Len(numbers)] + SeqTotal(SubSeq(numbers, 1, Len(numbers) - 1))

\* C14 (csv variant): in the summary main computes, every outcome is either
\* processed or skipped (processedModels + skippedModels = totalModels, the
\* number of outcomes), modelsWithErrors counts only outcomes with errors
\* that are not skipped, and totalFiles, totalSuccessfulFiles, totalErrors
\* and totalTokens are the sums of the outcomes' values, to which a skipped
\* outcome adds nothing.
C14_SummaryAddsUp ==
  (variant = "csv" /\ mainPc = "done") =>
    LET skippedAt == { i \in DOMAIN allStats : allStats[i].skipped }
        failedAt == { i \in DOMAIN allStats : allStats[i].hasErrors } IN
    /\ summary.totalModels = Len(allStats)
    /\ summary.skippedModels = Cardinality(skippedAt)
    /\ summary.processedModels + summary.skippedModels = summary.totalModels
    /\ summary.modelsWithErrors = Cardinality(failedAt \ skippedAt)
    /\ summary.modelsWithErrors <= summary.processedModels
    /\ summary.totalFiles = SeqTotal([i \in DOMAIN allStats |-> allStats[i].totalFiles])
    /\ summary.totalSuccessfulFiles =
         SeqTotal([i \in DOMAIN allStats |-> allStats[i].successfulFiles])
    /\ summary.totalErrors = SeqTotal([i \in DOMAIN allStats |-> Len(allStats[i].errors)])
    /\ summary.totalTokens = SeqTotal([i \in DOMAIN allStats |-> allStats[i].totalTokens])
    /\ \A i \in skippedAt :
         /\ allStats[i].totalFiles = 0 /\ allStats[i].successfulFiles = 0
         /\ allStats[i].totalTokens = 0 /\ allStats[i].errors = <<>>

\* a run in which one model was skipped and the other failed
C14_Witness ==
  /\ variant = "csv" /\ mainPc = "done"
  /\ summary.totalModels = 2
  /\ summary.skippedModels = 1
  /\ summary.modelsWithErrors = 1
  /\ summary.totalErrors >= 1

\* C15 (both variants): an invocation that finds no API key ends at once:
\* the step that prints the message and exits has made no call of main to
\* the file system (no directory check or creation, no read of models.txt),
\* no request, no read of a corpus file and no write, and leaves every file
\* of the output directory as it was.
C15_NoKeyNoActivity ==
  [][(runs' = runs + 1 /\ exitMsg' = NoApiKey) =>
       /\ mainPc' = "exit" /\ pc' = "none"
       /\ mainCalls' = <<>>
       /\ httpCalls' = 0 /\ fileReads' = 0 /\ writeCalls' = <<>> /\ files' = <<>>
       /\ UNCHANGED <<resultsDir, runFiles, reportsJson>>]_vars

\* after an invocation that wrote its results, one without the key
C15_Witness ==
  /\ mainPc = "exit" /\ exitMsg = NoApiKey /\ mainCalls = <<>>
  /\ runs = 2 /\ doneRuns = 1
  /\ httpCalls = 0 /\ fileReads = 0

\* C16 (csv variant), as claimed: when processModel returns with hasErrors,
\* neither artifact of the model has been created or modified by it: both
\* are as they were when it was entered.
C16_FailedRunLeavesNoArtifact ==
  (variant = "csv" /\ pc = "return" /\ ret[1].hasErrors) => artifact = prior

\* C17 (both variants), as claimed: a delay is awaited after every file of
\* the loop, whatever its outcome: whenever the loop is about to start a file
\* or has ended, as many delays have been awaited as files were gone through.
C17_DelayAfterEveryFile ==
  pc \in {"read", "afterloop"} => delays = fi - 1

\* the names of the files whose probe succeeded, in the order recorded
ProbedNames ==
  IF variant = "csv" THEN [i \in DOMAIN DataRows(csvLines) |-> DataRows(csvLines)[i][1]]
                     ELSE [i \in DOMAIN results |-> results[i].filename]

\* the names of the files the errors name, in the order recorded
FailedNames == [i \in DOMAIN errors |-> errors[i].arg]

SeqRange(seq) == { seq[i] : i \in DOMAIN seq }

\* C18 (both variants): whenever the file loop is about to start a file or
\* has ended, the files before the loop's position have each been read once
\* and each has left exactly one trace, an error naming it (read or probe
\* failure) or a result (probe success), both kept in the sorted file
\* order; and the loop ends only when the position is past the last file,
\* whatever the outcomes were.
C18_EveryFileVisitedOnce ==
  pc \in {"read", "afterloop"} =>
    /\ fi \in 1..(Len(files) + 1)
    /\ (pc = "afterloop") = (fi = Len(files) + 1)
    /\ fileReads = fi - 1
    /\ Len(FailedNames) + Len(ProbedNames) = fi - 1
    /\ \A i \in DOMAIN errors : IsFileError(errors[i])
    /\ { PathOf(n) : n \in SeqRange(FailedNames) \cup SeqRange(ProbedNames) }
         = { files[i] : i \in 1..(fi - 1) }
    /\ Ascending(FailedNames) /\ Ascending(ProbedNames)
    /\ httpCalls = 1 + Len(ProbedNames)
                     + Cardinality({ i \in DOMAIN errors : IsProbeError(errors[i]) })

\* the first file could not be read, the second was probed
C18_Witness ==
  /\ pc = "afterloop" /\ Len(files) = 2
  /\ Len(errors) = 1 /\ PathOf(errors[1].arg) = files[1] /\ ~IsProbeError(errors[1])
  /\ Len(ProbedNames) = 1 /\ PathOf(ProbedNames[1]) = files[2]

\* processModel has asked the catalog for the model and has not got it
ModelNotFound ==
  /\ pc \notin {"none", "entry", "getinfo"}
  /\ httpCalls > 0
  /\ modelInfo = null

\* the totals and errors of the outcome processModel returns
OutcomeStats == IF variant = "csv" THEN ret[1] ELSE ret[1].stats

\* C19 (both variants): once the catalog has not yielded the model,
\* processModel is at its return with exactly one error, that the model was
\* not found, and totalFiles = successfulFiles = totalTokens = 0; the
\* catalog request is the only call it has made: the corpus was not listed,
\* no file read, no probe sent, no delay awaited, no artifact written, and
\* the artifacts are as they were.
C19_NotFoundTouchesNothing ==
  ModelNotFound =>
    /\ pc = "return"
    /\ OutcomeStats.errors = <<ErrNotFound(modelId)>>
    /\ OutcomeStats.totalFiles = 0
    /\ OutcomeStats.successfulFiles = 0
    /\ OutcomeStats.totalTokens = 0
    /\ variant = "csv" => (ret[1].hasErrors /\ ~ret[1].skipped)
    /\ variant = "index" => (ret[1].modelInfo = null /\ ret[1].results = <<>>)
    /\ httpCalls = 1 /\ fileReads = 0 /\ delays = 0 /\ writeCalls = <<>>
    /\ files = <<>> /\ fi = 0
    /\ artifact = prior

\* a model not found in an --override run over its existing artifacts
C19_Witness ==
  /\ variant = "csv" /\ ModelNotFound /\ pc = "return"
  /\ args.override /\ PriorExists
  /\ artifact = prior

\* the write of the model info has failed in this processModel
JsonWriteFailed == \E i \in DOMAIN errors : errors[i] = ErrSaveJson

\* C20 (csv variant): processModel calls writeTextFile first for the model
\* info and then, at most once, for the rows; and once the write of the model
\* info has failed it is at its return, having made no call for the rows,
\* with hasErrors and that failure as its only error, both artifacts as they
\* were.
C20_JsonBeforeCsv ==
  (variant = "csv" /\ pc # "none") =>
    /\ writeCalls \in {<<>>, <<"json">>, <<"json", "csv">>}
    /\ Len(writeCalls) = 2 => Exists(artifact.json)
    /\ JsonWriteFailed =>
         /\ pc = "return"
         /\ writeCalls = <<"json">>
         /\ ret[1].hasErrors /\ ~ret[1].skipped
         /\ ret[1].errors = <<ErrSaveJson>>
         /\ artifact = prior

\* the write of the model info failed after both files had been probed
C20_Witness ==
  /\ variant = "csv" /\ pc = "return" /\ JsonWriteFailed
  /\ writeCalls = <<"json">>
  /\ ret[1].successfulFiles = 2
  /\ ~Exists(artifact.csv)

\* the probe errors recorded so far, in the order recorded
FailedProbes == SelectSeq(errors, IsProbeError)

Probed == answer[1]
Usable ==
  /\ Probed.transport = "ok" /\ Probed.ok /\ Probed.parses
  /\ Probed.usage # <<>> /\ Probed.usage[1].prompt_tokens # <<>>

\* C22: countTokens, called on any response, returns (it never throws); it
\* returns a result only when the transport succeeded, the status is a
\* success status, the body is JSON and usage.prompt_tokens is present, and
\* the tokens of the result are then usage.prompt_tokens; on a transport
\* error, an error status, a body that is not JSON or an absent
\* prompt_tokens it returns null.
C22_ResultOnlyFromUsableResponse ==
  (pc = "countTokens" /\ mainPc # "call") =>
    /\ mainPc = "returned"
    /\ ret # null => (Usable /\ ret = Some([tokens |-> Probed.usage[1].prompt_tokens[1]]))
    /\ ~Usable => ret = null

\* a success response with a token count, returned as the result
C22_Witness ==
  /\ pc = "countTokens" /\ mainPc = "returned"
  /\ Usable /\ Probed.usage[1].prompt_tokens = Some(1)
  /\ ret = Some([tokens |-> 1])

\* the corpus files in scope of the run: all of them, or the one --language names
FilesInScope ==
  { e \in UdhrDir :
      /\ IsCorpusFile(e)
      /\ args.languageFilter # <<>> => e.name = args.languageFilter \o DotTxt }

\* <timestamp>_<F>langs_<M>models.json
NameFor(timestamp, F, M) ==
  timestamp \o <<"_", ToString(F), "langs_", ToString(M), "models.json">>

\* C23 (index variant), as claimed: the name under which a run saves its
\* run file is <timestamp>_<F>langs_<M>models.json with M the number of
\* model ids of the run and F the number of corpus files in scope, whatever
\* the outcomes of the models were.
C23_NameCountsFilesInScope ==
  (variant = "index" /\ mainPc \in {"readindex", "writeindex", "done"}) =>
    save.filename = NameFor(save.timestamp, Cardinality(FilesInScope), Len(args.modelIds))

\* C24 (index variant, two invocations at once): an invocation ends by
\* writing the index it read, followed by its entry, over whatever the index
\* holds by then; when the index is no longer what the invocation read (the
\* other invocation has written in between), the entries written in between
\* are gone and the index holds fewer entries than invocations have ended.
C24_StaleWriteLosesEntry ==
  [][(mainPc = "writeindex" /\ doneRuns' = doneRuns + 1) =>
       /\ IndexEntries(reportsJson') =
            Append(save.reports, [filename |-> save.filename, timestamp |-> save.timestamp,
                                  summary |-> summary])
       /\ save.reports # IndexEntries(reportsJson) =>
            Len(IndexEntries(reportsJson')) < doneRuns']_vars

\* both invocations have ended without an error and the index holds one entry
C24_Witness ==
  /\ other # null /\ other[1].mainPc = "done" /\ mainPc = "done"
  /\ doneRuns = 2
  /\ Len(IndexEntries(reportsJson)) = 1
  /\ Cardinality(runFiles) = 2

\* the output directory holds a run file of this name with this summary
RunFileHolds(name, sum) == \E f \in runFiles : f.filename = name /\ f.summary = sum

\* C25 (index variant, invocations one after the other): every entry of the
\* index names a run file that is in the output directory, and its summary
\* is the summary that run file holds; an invocation that is at the index
\* (reading it, writing it, or done) has written its run file; and the index
\* changes only in a step of an invocation whose run file is written, so a
\* failed write of the run file leaves the index as it was.
C25_EntriesNameWrittenRunFiles ==
  /\ [](variant = "index" =>
         /\ \A i \in DOMAIN IndexEntries(reportsJson) :
              RunFileHolds(IndexEntries(reportsJson)[i].filename,
                           IndexEntries(reportsJson)[i].summary)
         /\ mainPc \in {"readindex", "writeindex", "done"} =>
              RunFileHolds(save.filename, summary))
  /\ [][reportsJson' # reportsJson =>
          /\ mainPc = "writeindex"
          /\ RunFileHolds(save.filename, summary)
          /\ \E i \in DOMAIN IndexEntries(reportsJson') :
               IndexEntries(reportsJson')[i].filename = save.filename]_vars

\* a first invocation has added its entry; the second could not write its run
\* file and has ended: the index still holds the one entry
C25_Witness ==
  /\ variant = "index" /\ runs = 2 /\ doneRuns = 1
  /\ mainPc = "exit" /\ exitMsg = "Error saving report"
  /\ save.filename # <<>> /\ ~(\E f \in runFiles : f.filename = save.filename)
  /\ Len(IndexEntries(reportsJson)) = 1
  /\ RunFileHolds(IndexEntries(reportsJson)[1].filename, IndexEntries(reportsJson)[1].summary)

\* processModel was entered without --override on a model that had its
\* metadata file and not its tabular file
OnlyMetadata ==
  /\ variant = "csv" /\ pc \notin {"none", "entry"}
  /\ ~args.override
  /\ prior.json # Absent /\ prior.csv = Absent

\* C26 (csv variant): a processModel entered without --override on a model
\* of which only the metadata file exists goes straight to its return: the
\* outcome is skipped, without errors, with zero totals; no request was
\* sent, no file read, no artifact written; the metadata file is as it was
\* and the tabular file is still missing.
C26_MetadataAloneSkips ==
  OnlyMetadata =>
    /\ pc = "return"
    /\ ret[1].skipped /\ ~ret[1].hasErrors /\ ret[1].errors = <<>>
    /\ ret[1].totalFiles = 0 /\ ret[1].successfulFiles = 0 /\ ret[1].totalTokens = 0
    /\ httpCalls = 0 /\ fileReads = 0 /\ writeCalls = <<>>
    /\ artifact.json = prior.json
    /\ artifact.csv = Absent

\* the second run finds the metadata file the first run left when its write
\* of the tabular file failed, and skips the model
C26_Witness ==
  /\ OnlyMetadata /\ runs = 2 /\ pc = "return"
  /\ ret[1].skipped
  /\ artifact.json # Absent /\ artifact.csv = Absent

\* the first model of the list was processed and its artifacts written
FirstPersisted == ~allStats[1].skipped /\ ~allStats[1].hasErrors

\* C27 (csv variant, a list of two distinct ids that differ only in a
\* character outside [a-zA-Z0-9._-]): both ids have the artifact name in
\* which that character is '-'.  While the second is processed in a run
\* whose first model was persisted, the artifacts it finds at its entry are
\* the first model's; without --override it returns the skipped outcome,
\* no request sent and no file read, and the artifacts stay the first
\* model's; with --override, once it returns without errors, the metadata
\* file and every row of the tabular file are the second model's.
C27_CollidingIdsShareArtifacts ==
  (mainPc = "loop" /\ mi = 2 /\ pc \notin {"none", "entry"}) =>
    /\ args.modelIds[1] # args.modelIds[2]
    /\ artifactName = <<"a", "-", "b">>
    /\ FirstPersisted =>
         /\ prior.json # Absent /\ prior.csv # Absent
         /\ prior.json[1].id = args.modelIds[1]
         /\ ~args.override =>
              /\ pc = "return"
              /\ ret[1].skipped /\ ~ret[1].hasErrors
              /\ ret[1].modelId = args.modelIds[2]
              /\ httpCalls = 0 /\ fileReads = 0 /\ writeCalls = <<>>
              /\ artifact = prior
         /\ (args.override /\ pc = "return" /\ ~ret[1].hasErrors) =>
              /\ artifact.json[1].id = args.modelIds[2]
              /\ \A i \in DOMAIN DataRows(artifact.csv[1]) :
                   DataRows(artifact.csv[1])[i][5] = args.modelIds[2]

\* in a first run without --override, a/b was persisted and a-b skipped
C27_Witness ==
  /\ runs = 1 /\ mainPc = "loop" /\ mi = 2 /\ pc = "return"
  /\ ~args.override /\ FirstPersisted
  /\ args.modelIds = <<M1, M2>>
  /\ ret[1].skipped
  /\ artifact.json[1].id = M1

\* the catalog request of this processModel has been answered, and the
\* answer is one the claim counts as a failure: no response, an error
\* status, a body that is not JSON, JSON of an unexpected shape
CatalogAnswered == pc \in {"none", "files", "return"} /\ httpCalls = 1 /\ answer # null
CatalogFailed ==
  \/ answer[1].transport = "error"
  \/ ~answer[1].ok
  \/ ~answer[1].parses
  \/ answer[1].shape \notin {"array", "data", "models"}

\* C28 (both variants): when the catalog request fails in any of these
\* ways, processModel is at its return with the model not found: its only
\* error is that the model was not found in the API, its totals are zero,
\* the catalog request is the only request sent, no file was read, and main
\* is still in its loop; the step after it collects the outcome and, when
\* the list has a further model, enters processModel for it.
C28_CatalogFailureIsNotFound ==
  /\ []((CatalogAnswered /\ CatalogFailed) =>
          /\ modelInfo = null
          /\ pc = "return"
          /\ mainPc = "loop"
          /\ OutcomeStats.errors = <<ErrNotFound(modelId)>>
          /\ OutcomeStats.totalFiles = 0 /\ OutcomeStats.successfulFiles = 0
          /\ fileReads = 0 /\ delays = 0 /\ writeCalls = <<>>)
  /\ [][(CatalogAnswered /\ CatalogFailed) =>
          /\ Len(outcomes') = Len(outcomes) + 1
          /\ outcomes'[Len(outcomes')].modelId = modelId
          /\ IF mi < Len(args.modelIds)
             THEN mi' = mi + 1 /\ mainPc' = "loop" /\ pc' \in {"entry", "getinfo"}
             ELSE mainPc' = "summary"]_vars

\* the catalog answered the first of two models with JSON of an unexpected
\* shape
C28_Witness ==
  /\ CatalogAnswered /\ CatalogFailed
  /\ answer[1].parses /\ answer[1].shape = "object"
  /\ pc = "return" /\ mi = 1 /\ Len(args.modelIds) = 2

\* a read error is among the errors of this processModel
ReadErrorHeld == \E i \in DOMAIN errors : errors[i].msg = "Failed to read file"

\* C29 (both variants): the step that reads a corpus file that is empty, and
\* the step that reads one that cannot be read, do the same to everything
\* the program holds: the content is the empty string, one error 'Failed to
\* read file' naming the file is appended, the loop moves to the next file;
\* no request is sent, no result or row is added, no token counted, nothing
\* written (part_001 counts the file in totalFiles, run.ts does not).  And
\* in run.ts, while a read error is held, no artifact has been written and
\* both are as they were.
C29_EmptyIsUnreadable ==
  /\ []((variant = "csv" /\ pc # "none" /\ ReadErrorHeld) =>
          (writeCalls = <<>> /\ resultsDir[modelIdToFilename(modelId)] = prior))
  /\ [][(pc = "read" /\ answer' # null /\ answer'[1] \in {<<>>, ReadThrows}) =>
          /\ content' = <<>>
          /\ errors' = Append(errors, [msg |-> "Failed to read file",
                                       arg |-> SplitPop(files[fi])])
          /\ fi' = fi + 1
          /\ pc' = (IF fi < Len(files) THEN "read" ELSE "afterloop")
          /\ totalFiles' = (IF variant = "index" THEN totalFiles + 1 ELSE totalFiles)
          /\ UNCHANGED <<httpCalls, csvLines, results, successfulFiles, totalTokens,
                         writeCalls, resultsDir, ret>>]_vars

\* run.ts has read an empty file, the last of the loop, and holds the read
\* error as its only error
C29_Witness ==
  /\ variant = "csv" /\ pc = "afterloop"
  /\ answer = Some(<<>>)
  /\ errors = <<[msg |-> "Failed to read file", arg |-> SplitPop(files[Len(files)])]>>
  /\ httpCalls = 1 + Len(ProbedNames)

\* C30: countTokens, called on a delivered response of a success status
\* whose body is JSON, returns null exactly when usage is absent, or
\* usage.prompt_tokens is absent, or usage.prompt_tokens is 0: a count of 0
\* is a failure like a missing usage field, and every other count is
\* returned.
C30_ZeroTokensIsFailure ==
  (pc = "countTokens" /\ mainPc = "returned"
     /\ Probed.transport = "ok" /\ Probed.ok /\ Probed.parses) =>
    /\ (ret = null) = \/ Probed.usage = <<>>
                      \/ Probed.usage[1].prompt_tokens = <<>>
                      \/ Probed.usage[1].prompt_tokens = <<0>>
    /\ ret # null => ret[1].tokens > 0

\* a success response with usage.prompt_tokens = 0, answered with null
C30_Witness ==
  /\ pc = "countTokens" /\ mainPc = "returned"
  /\ Probed.transport = "ok" /\ Probed.ok /\ Probed.parses
  /\ Probed.usage # <<>> /\ Probed.usage[1].prompt_tokens = <<0>>
  /\ ret = null

====
